---- MODULE Spec2Model ----
(***************************************************************************)
(* Model of the octopus-connect live cache: DataConnector, EntityStore,    *)
(* CollectionStore, DataCollection and DataEntity, with a transport that   *)
(* answers each call with data, with no data, or through the error         *)
(* callback.                                                               *)
(***************************************************************************)
EXTENDS Integers, Sequences, FiniteSets, TLC

\* ------------------------------------------------------------------ bounds
MaxOps == 2
MaxSets == 1
MaxStoreCalls == 4

\* ------------------------------------------------------- value universes
Types == {"articles"}
Ids == {1, 2}
TempId == -1
UndefinedId == -3
NullId == -2
Keys == {"status"}
Vals == {"open", "closed"}
Undefined == "undefined"
AttributeSets == [Keys -> Vals \cup {Undefined}]
Filters == {<<>>, <<(<<"status", "open">>)>>}
RetryTimeouts == {2}
MaxRetries == {1}
DefaultRetryTimeout == 50000
DefaultMaxRetry == 5
ErrorCodes == {0, 5}

\* ----------------------------------------------------- JS object helpers
EmptyMap == [k \in {} |-> 0]
MapPut(m, k, v) == [x \in (DOMAIN m) \cup {k} |-> IF x = k THEN v ELSE m[x]]
MapDel(m, k) == [x \in (DOMAIN m) \ {k} |-> m[x]]
Truthy(id) == id \notin {0, UndefinedId, NullId}
Last(s) == s[Len(s)]
Contains(s, x) == \E i \in DOMAIN s : s[i] = x
Min(a, b) == IF a < b THEN a ELSE b

\* ------------------------------------------------------ filters, hashing
FilterKeys(filter) == {filter[i][1] : i \in DOMAIN filter}
FilterValue(filter, key) == filter[CHOOSE i \in DOMAIN filter : filter[i][1] = key][2]
\* variant: the fingerprint keeps the insertion order of the keys
ObjectHash_Ordered(filter) == filter

\* object-hash sha1: a content hash, insensitive to key insertion order
ObjectHash(filter) == {filter[i] : i \in DOMAIN filter}

\* variant: a key of the filter blocks the match unless the value is equal
entityMatchFilter_Strict(attributes, filter) ==
    \A key \in FilterKeys(filter) : FilterValue(filter, key) = attributes[key]

entityMatchFilter(attributes, filter) ==
    \A key \in FilterKeys(filter) :
        ~(attributes[key] # Undefined /\ FilterValue(filter, key) # attributes[key])

filterMatching(filter1, filter2) ==
    /\ Cardinality(FilterKeys(filter1)) = Cardinality(FilterKeys(filter2))
    /\ \A key \in FilterKeys(filter1) : key \in FilterKeys(filter2)
    /\ \A key \in FilterKeys(filter1) : FilterValue(filter1, key) = FilterValue(filter2, key)

\* ------------------------------------------------------------- rxjs subjects
\* a stopped (errored) subject ignores next()
SubjectNext(subject, value) ==
    IF subject.err THEN subject ELSE [subject EXCEPT !.hist = Append(@, value)]
SubjectError(subject) == [subject EXCEPT !.err = TRUE]
NewReplaySubject == [hist |-> <<>>, err |-> FALSE]
NewCollectionSubject(useCache) == [replay |-> useCache, hist |-> <<>>, err |-> FALSE]

VARIABLES
    configuration,        \* connector configuration (maxRetry, retryTimeout, map, useDiff)
    maxRetry,             \* DataConnector.maxRetry
    retryTimeout,         \* DataConnector.retryTimeout
    entities,             \* heap of DataEntity objects
    entitySubjects,       \* heap of ReplaySubject<DataEntity>
    collectionSubjects,   \* heap of Subject<DataCollection>
    entitiesLiveStore,    \* type -> EntityStore
    collectionsLiveStore, \* type -> CollectionStore
    ops,                  \* connector operations issued so far
    sets,                 \* number of local field sets performed
    storeCalls,           \* direct calls made on one EntityStore, in order
    collection,           \* members of one DataCollection driven directly
    localStorage,         \* the LocalStorage transport's store: records and lastUsedId
    pushListeners,        \* DataConnector.pushListeners: type -> listener subject
    listenerSubjects,     \* heap of Subject<DataEntity> created by listen
    log,                  \* calls made on the object a specification drives directly
    http,                 \* the Http transport's session: clock, browser storage, headers, user
    nodejs                \* the Nodejs transport: connected flag and retained error callbacks

vars == <<configuration, maxRetry, retryTimeout, entities, entitySubjects,
          collectionSubjects, entitiesLiveStore, collectionsLiveStore, ops,
          sets, storeCalls, collection, localStorage, pushListeners,
          listenerSubjects, log, http, nodejs>>

\* the mutable object graph, threaded through the handlers
World == [entities |-> entities,
          entitySubjects |-> entitySubjects,
          collectionSubjects |-> collectionSubjects,
          entitiesLiveStore |-> entitiesLiveStore,
          collectionsLiveStore |-> collectionsLiveStore]

SetWorld(w) ==
    /\ entities' = w.entities
    /\ entitySubjects' = w.entitySubjects
    /\ collectionSubjects' = w.collectionSubjects
    /\ entitiesLiveStore' = w.entitiesLiveStore
    /\ collectionsLiveStore' = w.collectionsLiveStore

\* ---------------------------------------------------------------- DataEntity
\* constructor: attributes copied from data (id excluded), data.id wins over
\* the id argument when truthy, reference snapshot taken
DataEntity_new(type, data, id) ==
    [type |-> type,
     id |-> IF Truthy(data.id) THEN data.id ELSE id,
     attributes |-> data.attributes,
     attributesRef |-> data.attributes]

getDiff(entity) ==
    {key \in Keys : entity.attributes[key] # Undefined
                    /\ entity.attributesRef[key] # entity.attributes[key]}

\* ---------------------------------------------------------------- EntityStore
NewEntityStore == [entitiesObservables |-> EmptyMap]

EntityStore_isInStore(store, id) == id \in DOMAIN store.entitiesObservables

\* variant: a fresh subject for every registration, the index entry ignored
EntityStore_registerEntity_Fresh(w, type, ref, id) ==
    LET s == Len(w.entitySubjects) + 1
        w1 == [w EXCEPT !.entitySubjects = Append(@, SubjectNext(NewReplaySubject, ref))]
    IN [w |-> IF id # TempId
              THEN [w1 EXCEPT !.entitiesLiveStore[type].entitiesObservables = MapPut(@, id, s)]
              ELSE w1,
        ret |-> s]

\* returns the world and the subject handed back
EntityStore_registerEntity(w, type, ref, id) ==
    LET obs == w.entitiesLiveStore[type].entitiesObservables IN
    IF id # TempId /\ id \in DOMAIN obs
    THEN [w |-> [w EXCEPT !.entitySubjects[obs[id]] = SubjectNext(@, ref)],
          ret |-> obs[id]]
    ELSE LET s == Len(w.entitySubjects) + 1
             w1 == [w EXCEPT !.entitySubjects = Append(@, SubjectNext(NewReplaySubject, ref))]
         IN [w |-> IF id # TempId
                   THEN [w1 EXCEPT !.entitiesLiveStore[type].entitiesObservables = MapPut(@, id, s)]
                   ELSE w1,
             ret |-> s]

EntityStore_registerEntitySubject(w, type, id, subject) ==
    IF id # TempId
    THEN [w EXCEPT !.entitiesLiveStore[type].entitiesObservables = MapPut(@, id, subject)]
    ELSE w

EntityStore_unregister(w, type, id) ==
    [w EXCEPT !.entitiesLiveStore[type].entitiesObservables = MapDel(@, id)]

EntityStore_unregisterEntity(w, type, ref) ==
    [w EXCEPT !.entitiesLiveStore[type].entitiesObservables = MapDel(@, w.entities[ref].id)]

EntityStore_getEntityObservable(w, type, id, createObservable) ==
    LET obs == w.entitiesLiveStore[type].entitiesObservables IN
    IF id \in DOMAIN obs /\ ~createObservable
    THEN [w |-> w, ret |-> obs[id]]
    ELSE LET s == Len(w.entitySubjects) + 1 IN
         [w |-> [w EXCEPT !.entitySubjects = Append(@, NewReplaySubject),
                          !.entitiesLiveStore[type].entitiesObservables = MapPut(@, id, s)],
          ret |-> s]

\* ------------------------------------------------------------- DataCollection
\* constructor, array form: one DataEntity per record, input order kept;
\* returns the heap extended with the new entities and their references
RECURSIVE DataCollection_new(_, _, _, _)
DataCollection_new(heap, type, data, refs) ==
    IF data = <<>> THEN [entities |-> heap, refs |-> refs]
    ELSE DataCollection_new(Append(heap, DataEntity_new(type, Head(data), Head(data).id)),
                            type, Tail(data), Append(refs, Len(heap) + 1))

\* variant: a member already held for the id is kept, the new entity dropped
DataCollection_registerEntity_KeepFirst(heap, members, ref) ==
    IF \E i \in DOMAIN members : Truthy(heap[ref].id) /\ heap[ref].id = heap[members[i]].id
    THEN members
    ELSE Append(members, ref)

\* replace in place the first member with the same (truthy) id, else append
DataCollection_registerEntity(heap, members, ref) ==
    LET hits == {i \in DOMAIN members :
                    Truthy(heap[ref].id) /\ heap[ref].id = heap[members[i]].id}
    IN IF hits # {}
       THEN [members EXCEPT ![CHOOSE i \in hits : \A j \in hits : i <= j] = ref]
       ELSE Append(members, ref)

\* forEach with splice: after a removal the element that slid into the
\* freed index is skipped
RECURSIVE DataCollection_deleteEntity(_, _, _, _)
DataCollection_deleteEntity(heap, members, id, index) ==
    IF index > Len(members) THEN members
    ELSE IF heap[members[index]].id = id
         THEN DataCollection_deleteEntity(heap,
                  SubSeq(members, 1, index - 1) \o SubSeq(members, index + 1, Len(members)),
                  id, index + 1)
         ELSE DataCollection_deleteEntity(heap, members, id, index + 1)

\* ------------------------------------------------------------ CollectionStore
NewCollectionStore == [filters |-> EmptyMap, collections |-> EmptyMap,
                       collectionObservables |-> EmptyMap]

CollectionStore_isInStore(store, filter) == ObjectHash(filter) \in DOMAIN store.collections

CollectionStore_clearEntities(w, type, filter) ==
    LET hash == ObjectHash(filter) IN
    IF hash \in DOMAIN w.collectionsLiveStore[type].collections
    THEN [w EXCEPT !.collectionsLiveStore[type].collections[hash] = <<>>]
    ELSE w

\* variant: the response is appended to the members already stored
CollectionStore_registerCollection_Merged(w, type, members, filter) ==
    LET hash == ObjectHash(filter)
        store == w.collectionsLiveStore[type]
        old == IF hash \in DOMAIN store.collections THEN store.collections[hash] ELSE <<>>
        w1 == [w EXCEPT !.collectionsLiveStore[type].filters = MapPut(@, hash, filter),
                        !.collectionsLiveStore[type].collections = MapPut(@, hash, old \o members)]
    IN IF hash \in DOMAIN store.collectionObservables
       THEN [w |-> w1, ret |-> store.collectionObservables[hash]]
       ELSE LET s == Len(w.collectionSubjects) + 1 IN
            [w |-> [w1 EXCEPT !.collectionSubjects = Append(@, NewCollectionSubject(FALSE)),
                              !.collectionsLiveStore[type].collectionObservables = MapPut(@, hash, s)],
             ret |-> s]

\* stores filter and collection, creates a plain Subject when none is indexed;
\* pushes nothing
CollectionStore_registerCollection(w, type, members, filter) ==
    LET hash == ObjectHash(filter)
        store == w.collectionsLiveStore[type]
        w1 == [w EXCEPT !.collectionsLiveStore[type].filters = MapPut(@, hash, filter),
                        !.collectionsLiveStore[type].collections = MapPut(@, hash, members)]
    IN IF hash \in DOMAIN store.collectionObservables
       THEN [w |-> w1, ret |-> store.collectionObservables[hash]]
       ELSE LET s == Len(w.collectionSubjects) + 1 IN
            [w |-> [w1 EXCEPT !.collectionSubjects = Append(@, NewCollectionSubject(FALSE)),
                              !.collectionsLiveStore[type].collectionObservables = MapPut(@, hash, s)],
             ret |-> s]

\* variant: the entity goes into every stored collection, whatever its filter
CollectionStore_registerEntityInCollections_Unfiltered(w, type, ref, refreshCollection) ==
    LET store == w.collectionsLiveStore[type]
        colls == [key \in DOMAIN store.collections |->
                    DataCollection_registerEntity(w.entities, store.collections[key], ref)]
        touched == {store.collectionObservables[key] :
                        key \in {k \in DOMAIN store.collections : refreshCollection}}
        keyOf(s) == CHOOSE key \in DOMAIN store.collections : store.collectionObservables[key] = s
    IN [w EXCEPT !.collectionsLiveStore[type].collections = colls,
                 !.collectionSubjects = [s \in DOMAIN @ |->
                        IF s \in touched THEN SubjectNext(@[s], colls[keyOf(s)]) ELSE @[s]]]

\* fan-out of one entity into every stored collection whose filter it matches
CollectionStore_registerEntityInCollections(w, type, ref, refreshCollection) ==
    LET store == w.collectionsLiveStore[type]
        hit(key) == entityMatchFilter(w.entities[ref].attributes, store.filters[key])
        colls == [key \in DOMAIN store.collections |->
                    IF hit(key)
                    THEN DataCollection_registerEntity(w.entities, store.collections[key], ref)
                    ELSE store.collections[key]]
        touched == {store.collectionObservables[key] :
                        key \in {k \in DOMAIN store.collections : hit(k) /\ refreshCollection}}
        keyOf(s) == CHOOSE key \in DOMAIN store.collections : store.collectionObservables[key] = s
    IN [w EXCEPT !.collectionsLiveStore[type].collections = colls,
                 !.collectionSubjects = [s \in DOMAIN @ |->
                        IF s \in touched THEN SubjectNext(@[s], colls[keyOf(s)]) ELSE @[s]]]

CollectionStore_refreshCollections(w, type, filter) ==
    LET store == w.collectionsLiveStore[type]
        hashes == {hash \in DOMAIN store.collectionObservables :
                      /\ hash \in DOMAIN store.filters
                      /\ hash \in DOMAIN store.collections
                      /\ filterMatching(filter, store.filters[hash])}
        touched == {store.collectionObservables[hash] : hash \in hashes}
        keyOf(s) == CHOOSE hash \in hashes : store.collectionObservables[hash] = s
    IN [w EXCEPT !.collectionSubjects = [s \in DOMAIN @ |->
                        IF s \in touched THEN SubjectNext(@[s], store.collections[keyOf(s)]) ELSE @[s]]]

CollectionStore_deleteEntityFromCollection(w, type, ref) ==
    LET store == w.collectionsLiveStore[type]
        hit(key) == entityMatchFilter(w.entities[ref].attributes, store.filters[key])
        colls == [key \in DOMAIN store.collections |->
                    IF hit(key)
                    THEN DataCollection_deleteEntity(w.entities, store.collections[key],
                                                     w.entities[ref].id, 1)
                    ELSE store.collections[key]]
        touched == {store.collectionObservables[key] :
                        key \in {k \in DOMAIN store.collections : hit(k)}}
        keyOf(s) == CHOOSE key \in DOMAIN store.collections : store.collectionObservables[key] = s
    IN [w EXCEPT !.collectionsLiveStore[type].collections = colls,
                 !.collectionSubjects = [s \in DOMAIN @ |->
                        IF s \in touched THEN SubjectNext(@[s], colls[keyOf(s)]) ELSE @[s]]]

\* variant: the filter of the unregistered collection is kept
CollectionStore_unregister_KeepingFilter(w, type, filter) ==
    LET hash == ObjectHash(filter) IN
    [w EXCEPT !.collectionsLiveStore[type].collections = MapDel(@, hash),
              !.collectionsLiveStore[type].collectionObservables = MapDel(@, hash)]

CollectionStore_unregister(w, type, filter) ==
    LET hash == ObjectHash(filter) IN
    [w EXCEPT !.collectionsLiveStore[type].collections = MapDel(@, hash),
              !.collectionsLiveStore[type].collectionObservables = MapDel(@, hash),
              !.collectionsLiveStore[type].filters = MapDel(@, hash)]

CollectionStore_getCollectionSubject(w, type, filter, useCache) ==
    LET hash == ObjectHash(filter)
        store == w.collectionsLiveStore[type]
    IN IF hash \in DOMAIN store.collectionObservables
       THEN [w |-> w, ret |-> store.collectionObservables[hash]]
       ELSE LET s == Len(w.collectionSubjects) + 1 IN
            [w |-> [w EXCEPT !.collectionSubjects = Append(@, NewCollectionSubject(useCache)),
                             !.collectionsLiveStore[type].collectionObservables = MapPut(@, hash, s)],
             ret |-> s]

\* -------------------------------------------------------------- DataConnector
OrDefault(value, default) == IF value = 0 THEN default ELSE value

getRetryTimeout(type) == retryTimeout
getMaxRetry(type) == retryTimeout
useCache(type) == configuration.map[type].cached
\* variant: code 5 taken for a transient error
IsTerminal_Above5(code) == code > 5
IsTerminal(code) == code > 0
MayRetry(type, count) == count < getMaxRetry(type) \/ getMaxRetry(type) = -1

EnsureEntityStore(w, type) ==
    IF type \in DOMAIN w.entitiesLiveStore THEN w
    ELSE [w EXCEPT !.entitiesLiveStore = MapPut(@, type, NewEntityStore)]

EnsureCollectionStore(w, type) ==
    IF type \in DOMAIN w.collectionsLiveStore THEN w
    ELSE [w EXCEPT !.collectionsLiveStore = MapPut(@, type, NewCollectionStore)]

DataConnector_getEntitySubject(w, type, id, createObservable) ==
    EntityStore_getEntityObservable(EnsureEntityStore(w, type), type, id, createObservable)

DataConnector_getCollectionObservable(w, type, filter, cache) ==
    CollectionStore_getCollectionSubject(EnsureCollectionStore(w, type), type, filter, cache)

\* fan-out into the matching collections (with refresh), then the entity store
DataConnector_registerEntity(w, type, id, ref) ==
    LET w1 == EnsureCollectionStore(EnsureEntityStore(w, type), type)
        w2 == CollectionStore_registerEntityInCollections(w1, w1.entities[ref].type, ref, TRUE)
    IN EntityStore_registerEntity(w2, type, ref, id)

\* variant: every entity of the response refreshes the collections it enters
RECURSIVE registerCollectionEntitiesLoop_Refreshing(_, _, _)
registerCollectionEntitiesLoop_Refreshing(w, type, refs) ==
    IF refs = <<>> THEN w
    ELSE LET ref == Head(refs)
             w1 == DataConnector_getEntitySubject(w, type, w.entities[ref].id, FALSE).w
             w2 == CollectionStore_registerEntityInCollections(w1, w1.entities[ref].type, ref, TRUE)
             w3 == EntityStore_registerEntity(w2, type, ref, w2.entities[ref].id).w
         IN registerCollectionEntitiesLoop_Refreshing(w3, type, Tail(refs))

RECURSIVE registerCollectionEntitiesLoop(_, _, _)
registerCollectionEntitiesLoop(w, type, refs) ==
    IF refs = <<>> THEN w
    ELSE LET ref == Head(refs)
             w1 == DataConnector_getEntitySubject(w, type, w.entities[ref].id, FALSE).w
             w2 == CollectionStore_registerEntityInCollections(w1, w1.entities[ref].type, ref, FALSE)
             w3 == EntityStore_registerEntity(w2, type, ref, w2.entities[ref].id).w
         IN registerCollectionEntitiesLoop(w3, type, Tail(refs))

registerCollectionEntities(w, type, refs) ==
    registerCollectionEntitiesLoop(EnsureCollectionStore(EnsureEntityStore(w, type), type), type, refs)

replaceCollectionEntities(w, type, refs, filter) ==
    LET w1 == EnsureCollectionStore(EnsureEntityStore(w, type), type)
    IN registerCollectionEntitiesLoop(CollectionStore_clearEntities(w1, type, filter), type, refs)

DataConnector_registerCollection(w, type, filter, refs, paginated) ==
    LET w1 == EnsureCollectionStore(w, type)
        w2 == IF ~paginated THEN registerCollectionEntities(w1, type, refs)
              ELSE replaceCollectionEntities(w1, type, refs, filter)
        w3 == CollectionStore_registerCollection(w2, type, refs, filter).w
    IN CollectionStore_refreshCollections(w3, type, filter)

DataConnector_unregisterEntity(w, ref) ==
    LET type == w.entities[ref].type
        w1 == IF type \in DOMAIN w.collectionsLiveStore
              THEN CollectionStore_deleteEntityFromCollection(w, type, ref) ELSE w
    IN IF type \in DOMAIN w1.entitiesLiveStore
       THEN EntityStore_unregisterEntity(w1, type, ref) ELSE w1

\* ------------------------------------------------------- operation records
NoAttributes == [key \in Keys |-> Undefined]
NewOp(kind, type) ==
    [kind |-> kind, type |-> type, id |-> 0, filter |-> <<>>, ent |-> 0,
     data |-> NoAttributes,
     subj |-> 0,          \* the stream handed back to the caller
     out |-> <<>>,        \* emissions of a deleteEntity result stream
     count |-> 0,         \* the closure's retry counter
     calls |-> 0,         \* transport calls issued for this operation
     fails |-> 0,         \* transient failures answered so far
     code |-> -1,         \* code of the last error answered
     st |-> "pending",
     threw |-> FALSE,     \* a TypeError escaped one of its handlers
     hit |-> FALSE,       \* the id / filter was in the store when issued
     afterFail |-> FALSE, \* an earlier load of the same id / filter had failed
     evicted |-> FALSE,   \* its id was unregistered after it was issued
     reg |-> 0]           \* entity registered by its response

Final == {"succeeded", "failed", "nodata", "store", "raised"}

MarkEvicted(type, id, seq) ==
    [i \in DOMAIN seq |->
        IF seq[i].type = type /\ seq[i].id = id /\ seq[i].kind = "loadEntity"
        THEN [seq[i] EXCEPT !.evicted = TRUE] ELSE seq[i]]

\* ------------------------------------------------------ transport payloads
Record(id, status) == [id |-> id, attributes |-> [key \in Keys |-> status]]
\* what a backend may answer to loadCollection(filter): records matching it
CollectionResponses(filter) ==
    {<<>>, <<Record(1, "open")>>, <<Record(1, "open"), Record(2, "open")>>}
    \cup (IF filter = <<>> THEN {<<Record(2, "closed")>>} ELSE {})

\* a LocalStorage transport over an empty browser storage: dataStore is the
\* in-memory copy (loaded on first use), persisted the browser's localStorage
NewLocalStorage ==
    [loaded |-> FALSE, dataStore |-> EmptyMap, persisted |-> EmptyMap, lastUsedId |-> 0]

\* a Nodejs transport after construction: connected, no callback retained
\* disconnects counts the socket's 'disconnect' events
NewNodejs == [connected |-> TRUE, errorsStore |-> <<>>, collectionsErrorStore |-> <<>>,
              disconnects |-> 0]

\* an Http transport with nothing in the browser storage
NoValue == "null"
NewHttp ==
    [now |-> 0,
     storage |-> [currentUser |-> NoValue, accessToken |-> NoValue,
                  expires_in |-> 0, refreshToken |-> NoValue],
     user |-> NoValue, accessTokenHeader |-> NoValue,
     getMe |-> 0,             \* users/me requests in flight
     refreshPending |-> 0,    \* refresh-token requests in flight
     refreshRequests |-> 0]   \* refresh-token requests issued so far

Standalone == <<collection, localStorage, pushListeners, listenerSubjects, log, http, nodejs>>
Config == <<configuration, maxRetry, retryTimeout, storeCalls, Standalone>>
StandaloneInit ==
    /\ collection = <<>>
    /\ localStorage = NewLocalStorage
    /\ pushListeners = EmptyMap
    /\ listenerSubjects = <<>>
    /\ log = <<>>
    /\ http = NewHttp
    /\ nodejs = NewNodejs

\* ------------------------------------------------------------------ loadEntity
getEntityObservableInStore(w, type, id) ==
    IF type \in DOMAIN w.entitiesLiveStore
    THEN EntityStore_getEntityObservable(w, type, id, FALSE)
    ELSE [w |-> w, ret |-> 0]

loadEntity(type, id) ==
    /\ Len(ops) < MaxOps
    /\ LET inStore == /\ type \in DOMAIN entitiesLiveStore
                      /\ EntityStore_isInStore(entitiesLiveStore[type], id)
           failedBefore == \E i \in DOMAIN ops : /\ ops[i].kind = "loadEntity"
                                                 /\ ops[i].id = id
                                                 /\ ops[i].st = "failed"
           op == [NewOp("loadEntity", type) EXCEPT !.id = id, !.hit = inStore,
                                                   !.afterFail = failedBefore]
           cachedObs == getEntityObservableInStore(World, type, id)
       IN IF useCache(type) /\ cachedObs.ret # 0
          THEN /\ SetWorld(cachedObs.w)
               /\ ops' = Append(ops, [op EXCEPT !.subj = cachedObs.ret, !.st = "store"])
          ELSE LET r == DataConnector_getEntitySubject(World, type, id, TRUE)
               IN /\ SetWorld(r.w)
                  /\ ops' = Append(ops, [op EXCEPT !.subj = r.ret, !.calls = 1])
    /\ UNCHANGED <<Config, sets>>

\* checkResponse with an entity: build it and register it
loadEntity_checkResponse(i, attributes) ==
    /\ i \in DOMAIN ops /\ ops[i].kind = "loadEntity" /\ ops[i].st = "pending"
    /\ LET op == ops[i]
           ref == Len(entities) + 1
           data == [id |-> op.id, attributes |-> attributes]
           w1 == [World EXCEPT !.entities = Append(@, DataEntity_new(op.type, data, op.id))]
           r == DataConnector_registerEntity(w1, op.type, op.id, ref)
       IN /\ SetWorld(r.w)
          /\ ops' = [ops EXCEPT ![i].st = "succeeded", ![i].reg = ref]
    /\ UNCHANGED <<Config, sets>>

\* checkResponse with a null answer: nothing is registered, nothing is emitted
loadEntity_checkResponseNull(i) ==
    /\ i \in DOMAIN ops /\ ops[i].kind = "loadEntity" /\ ops[i].st = "pending"
    /\ ops' = [ops EXCEPT ![i].st = "nodata"]
    /\ UNCHANGED <<Config, sets, entities, entitySubjects, collectionSubjects,
                   entitiesLiveStore, collectionsLiveStore>>

\* --------------------------------------------------------------- loadCollection
getCollectionObservableInStore(w, type, filter, cache, createIfNotExisted) ==
    LET isExisted == /\ type \in DOMAIN w.collectionsLiveStore
                     /\ CollectionStore_isInStore(w.collectionsLiveStore[type], filter)
    IN IF isExisted \/ createIfNotExisted
       THEN IF type \in DOMAIN w.collectionsLiveStore
            THEN CollectionStore_getCollectionSubject(w, type, filter, cache) @@ [threw |-> FALSE]
            ELSE [w |-> w, ret |-> 0, threw |-> TRUE]
       ELSE [w |-> w, ret |-> 0, threw |-> FALSE]

loadCollection(type, filter) ==
    /\ Len(ops) < MaxOps
    /\ LET inStore == /\ type \in DOMAIN collectionsLiveStore
                      /\ CollectionStore_isInStore(collectionsLiveStore[type], filter)
           failedBefore == \E i \in DOMAIN ops : /\ ops[i].kind = "loadCollection"
                                                 /\ ops[i].filter = filter
                                                 /\ ops[i].st = "failed"
           op == [NewOp("loadCollection", type) EXCEPT !.filter = filter, !.hit = inStore,
                                                       !.afterFail = failedBefore]
           cachedObs == getCollectionObservableInStore(World, type, filter, TRUE, TRUE)
       IN IF useCache(type) /\ cachedObs.threw
          THEN /\ ops' = Append(ops, [op EXCEPT !.st = "raised", !.threw = TRUE])
               /\ UNCHANGED <<entities, entitySubjects, collectionSubjects,
                              entitiesLiveStore, collectionsLiveStore>>
          ELSE IF useCache(type) /\ cachedObs.ret # 0
          THEN /\ SetWorld(cachedObs.w)
               /\ ops' = Append(ops, [op EXCEPT !.subj = cachedObs.ret, !.st = "store"])
          ELSE LET r == DataConnector_getCollectionObservable(World, type, filter, useCache(type))
               IN /\ SetWorld(r.w)
                  /\ ops' = Append(ops, [op EXCEPT !.subj = r.ret, !.calls = 1])
    /\ UNCHANGED <<Config, sets>>

loadCollection_checkResponse(i, data) ==
    /\ i \in DOMAIN ops /\ ops[i].kind = "loadCollection" /\ ops[i].st = "pending"
    /\ LET op == ops[i]
           c == DataCollection_new(entities, op.type, data, <<>>)
           w1 == [World EXCEPT !.entities = c.entities]
       IN SetWorld(DataConnector_registerCollection(w1, op.type, op.filter, c.refs, FALSE))
    /\ ops' = [ops EXCEPT ![i].st = "succeeded"]
    /\ UNCHANGED <<Config, sets>>

\* ------------------------------------------------------------------ saveEntity
\* variant: the snapshot is left as it was
generateReferenceObject_Skipped(w, ref) == w

\* first emission of the save stream: DataEntity.saveAction re-snapshots
generateReferenceObject(w, ref) ==
    [w EXCEPT !.entities[ref].attributesRef = w.entities[ref].attributes]

\* entity.save() on an entity with a real id: connector.saveEntity
saveEntity(ref) ==
    /\ Len(ops) < MaxOps
    /\ ref \in DOMAIN entities /\ entities[ref].id # TempId
    /\ LET entity == entities[ref]
           s == Len(entitySubjects) + 1
           op == [NewOp("saveEntity", entity.type) EXCEPT
                      !.id = entity.id, !.ent = ref, !.subj = s, !.data = entity.attributes]
           w1 == [World EXCEPT !.entitySubjects = Append(@, NewReplaySubject)]
       IN IF ~configuration.useDiff \/ getDiff(entity) # {}
          THEN /\ SetWorld(w1)
               /\ ops' = Append(ops, [op EXCEPT !.calls = 1])
          ELSE /\ SetWorld(generateReferenceObject(
                       [w1 EXCEPT !.entitySubjects[s] = SubjectNext(@, ref)], ref))
               /\ ops' = Append(ops, [op EXCEPT !.st = "succeeded", !.reg = ref])
    /\ UNCHANGED <<Config, sets>>

saveEntity_checkResponse(i) ==
    /\ i \in DOMAIN ops /\ ops[i].kind = "saveEntity" /\ ops[i].st = "pending"
    /\ LET op == ops[i]
           ref == Len(entities) + 1
           data == [id |-> op.id, attributes |-> op.data]
           w1 == [World EXCEPT
                    !.entities = Append(@, DataEntity_new(op.type, data, entities[op.ent].id)),
                    !.entitySubjects[op.subj] = SubjectNext(@, ref)]
           r == DataConnector_registerEntity(w1, op.type, entities[op.ent].id, ref)
       IN /\ SetWorld(generateReferenceObject(r.w, op.ent))
          /\ ops' = [ops EXCEPT ![i].st = "succeeded", ![i].reg = ref]
    /\ UNCHANGED <<Config, sets>>

\* ---------------------------------------------------------------- createEntity
createEntity(type, attributes) ==
    /\ Len(ops) < MaxOps
    /\ SetWorld([World EXCEPT !.entitySubjects = Append(@, NewReplaySubject)])
    /\ ops' = Append(ops, [NewOp("createEntity", type) EXCEPT
                              !.subj = Len(entitySubjects) + 1, !.data = attributes, !.calls = 1])
    /\ UNCHANGED <<Config, sets>>

\* the backend assigns an id no known entity carries
createEntity_checkResponse(i, id) ==
    /\ i \in DOMAIN ops /\ ops[i].kind = "createEntity" /\ ops[i].st = "pending"
    /\ \A r \in DOMAIN entities : entities[r].id # id
    /\ LET op == ops[i]
           ref == Len(entities) + 1
           data == [id |-> id, attributes |-> op.data]
           w1 == EntityStore_registerEntitySubject(EnsureEntityStore(World, op.type),
                                                   op.type, id, op.subj)
           w2 == [w1 EXCEPT !.entities = Append(@, DataEntity_new(op.type, data, id))]
           r == DataConnector_registerEntity(w2, op.type, id, ref)
       IN /\ SetWorld(IF op.ent # 0 THEN generateReferenceObject(r.w, op.ent) ELSE r.w)
          /\ ops' = [ops EXCEPT ![i].st = "succeeded", ![i].reg = ref, ![i].id = id]
    /\ UNCHANGED <<Config, sets>>

\* ---------------------------------------------------------------- deleteEntity
deleteEntity(ref) ==
    /\ Len(ops) < MaxOps
    /\ ref \in DOMAIN entities
    /\ ops' = Append(ops, [NewOp("deleteEntity", entities[ref].type) EXCEPT
                              !.id = entities[ref].id, !.ent = ref, !.calls = 1])
    /\ UNCHANGED <<Config, sets, entities, entitySubjects, collectionSubjects,
                   entitiesLiveStore, collectionsLiveStore>>

deleteEntity_checkResponse(i) ==
    /\ i \in DOMAIN ops /\ ops[i].kind = "deleteEntity" /\ ops[i].st = "pending"
    /\ SetWorld(DataConnector_unregisterEntity(World, ops[i].ent))
    /\ ops' = MarkEvicted(ops[i].type, entities[ops[i].ent].id,
                          [ops EXCEPT ![i].st = "succeeded", ![i].out = Append(@, "next")])
    /\ UNCHANGED <<Config, sets>>

\* ---------------------------------------------------------------- error path
\* FAILED: error the operation's stream, then evict the store entry
OnFailed(w, op) ==
    LET hasEntityStore == op.type \in DOMAIN w.entitiesLiveStore
        hasCollectionStore == op.type \in DOMAIN w.collectionsLiveStore
        erroredEntity == [w EXCEPT !.entitySubjects[op.subj] = SubjectError(@)]
    IN CASE op.kind = "loadEntity" ->
                IF hasEntityStore
                THEN [w |-> EntityStore_unregister(erroredEntity, op.type, op.id), threw |-> FALSE]
                ELSE [w |-> erroredEntity, threw |-> TRUE]
         [] op.kind = "saveEntity" ->
                IF hasEntityStore
                THEN [w |-> EntityStore_unregister(erroredEntity, op.type, w.entities[op.ent].id),
                      threw |-> FALSE]
                ELSE [w |-> erroredEntity, threw |-> TRUE]
         [] op.kind = "createEntity" -> [w |-> erroredEntity, threw |-> FALSE]
         [] op.kind = "deleteEntity" ->
                IF hasEntityStore
                THEN [w |-> EntityStore_unregister(w, op.type, w.entities[op.ent].id),
                      threw |-> FALSE]
                ELSE [w |-> w, threw |-> TRUE]
         [] op.kind = "loadCollection" ->
                LET errored == [w EXCEPT !.collectionSubjects[op.subj] = SubjectError(@)]
                IN IF hasCollectionStore
                   THEN [w |-> CollectionStore_unregister(errored, op.type, op.filter),
                         threw |-> FALSE]
                   ELSE [w |-> errored, threw |-> TRUE]

\* the per-attempt error callback the transport invokes
errorHandler(i, code) ==
    /\ i \in DOMAIN ops /\ ops[i].st = "pending"
    /\ LET op == [ops[i] EXCEPT !.code = code,
                                !.fails = IF code <= 0 THEN @ + 1 ELSE @]
       IN IF IsTerminal(code) \/ ~MayRetry(op.type, op.count)
          THEN LET f == OnFailed(World, op)
                   failed == [op EXCEPT !.st = "failed", !.threw = f.threw,
                                        !.out = IF op.kind = "deleteEntity"
                                                THEN Append(@, "error") ELSE @]
               IN /\ SetWorld(f.w)
                  /\ ops' = IF op.kind \in {"loadEntity", "saveEntity", "deleteEntity"}
                            THEN MarkEvicted(op.type, op.id, [ops EXCEPT ![i] = failed])
                            ELSE [ops EXCEPT ![i] = failed]
          ELSE /\ ops' = [ops EXCEPT ![i] = [op EXCEPT !.st = "retrying", !.count = @ + 1]]
               /\ UNCHANGED <<entities, entitySubjects, collectionSubjects,
                              entitiesLiveStore, collectionsLiveStore>>
    /\ UNCHANGED <<Config, sets>>

\* the setTimeout callback: the same transport call is issued again
retry(i) ==
    /\ i \in DOMAIN ops /\ ops[i].st = "retrying"
    /\ ops' = [ops EXCEPT ![i].st = "pending", ![i].calls = @ + 1]
    /\ UNCHANGED <<Config, sets, entities, entitySubjects, collectionSubjects,
                   entitiesLiveStore, collectionsLiveStore>>

\* ------------------------------------------------------------ DataEntity.set
set(ref, key, value) ==
    /\ sets < MaxSets
    /\ ref \in DOMAIN entities /\ entities[ref].attributes[key] # value
    /\ entities' = [entities EXCEPT ![ref].attributes[key] = value]
    /\ sets' = sets + 1
    /\ UNCHANGED <<Config, entitySubjects, collectionSubjects, entitiesLiveStore,
                   collectionsLiveStore, ops>>

\* ------------------------------------------------------------ specification
Init ==
    /\ configuration \in [retryTimeout : RetryTimeouts, maxRetry : MaxRetries,
                          useDiff : BOOLEAN,
                          map : [Types -> [cached : BOOLEAN]]]
    /\ retryTimeout = OrDefault(configuration.retryTimeout, DefaultRetryTimeout)
    /\ maxRetry = OrDefault(configuration.maxRetry, DefaultMaxRetry)
    /\ entities = <<>>
    /\ entitySubjects = <<>>
    /\ collectionSubjects = <<>>
    /\ entitiesLiveStore = EmptyMap
    /\ collectionsLiveStore = EmptyMap
    /\ ops = <<>>
    /\ sets = 0
    /\ storeCalls = <<>>
    /\ StandaloneInit

Next ==
    \/ \E type \in Types, id \in Ids : loadEntity(type, id)
    \/ \E i \in DOMAIN ops, attributes \in AttributeSets : loadEntity_checkResponse(i, attributes)
    \/ \E i \in DOMAIN ops : loadEntity_checkResponseNull(i)
    \/ \E type \in Types, filter \in Filters : loadCollection(type, filter)
    \/ \E i \in DOMAIN ops : \E data \in CollectionResponses(ops[i].filter) :
            loadCollection_checkResponse(i, data)
    \/ \E ref \in DOMAIN entities : saveEntity(ref)
    \/ \E i \in DOMAIN ops : saveEntity_checkResponse(i)
    \/ \E type \in Types, attributes \in AttributeSets : createEntity(type, attributes)
    \/ \E i \in DOMAIN ops, id \in Ids : createEntity_checkResponse(i, id)
    \/ \E ref \in DOMAIN entities : deleteEntity(ref)
    \/ \E i \in DOMAIN ops : deleteEntity_checkResponse(i)
    \/ \E i \in DOMAIN ops, code \in ErrorCodes : errorHandler(i, code)
    \/ \E i \in DOMAIN ops : retry(i)
    \/ \E ref \in DOMAIN entities, key \in Keys, value \in Vals : set(ref, key, value)

Spec == Init /\ [][Next]_vars


\* --------------------------------------------- one EntityStore, called directly
StoreType == "articles"
StoreIds == Ids \cup {TempId}
Called(op, id, ref, ret, reset) ==
    storeCalls' = Append(storeCalls,
        [op |-> op, id |-> id, ref |-> ref, ret |-> ret, reset |-> reset])

Store_registerEntity(id) ==
    /\ Len(storeCalls) < MaxStoreCalls
    /\ LET ref == Len(entities) + 1
           data == [id |-> id, attributes |-> NoAttributes]
           w1 == [World EXCEPT !.entities = Append(@, DataEntity_new(StoreType, data, id))]
           r == EntityStore_registerEntity(w1, StoreType, ref, id)
       IN SetWorld(r.w) /\ Called("registerEntity", id, ref, r.ret, FALSE)
    /\ UNCHANGED <<configuration, maxRetry, retryTimeout, ops, sets, Standalone>>

Store_registerEntitySubject(id) ==
    /\ Len(storeCalls) < MaxStoreCalls
    /\ LET s == Len(entitySubjects) + 1
           w1 == [World EXCEPT !.entitySubjects = Append(@, NewReplaySubject)]
       IN /\ SetWorld(EntityStore_registerEntitySubject(w1, StoreType, id, s))
          /\ Called("registerEntitySubject", id, 0, s, id # TempId)
    /\ UNCHANGED <<configuration, maxRetry, retryTimeout, ops, sets, Standalone>>

Store_unregister(id) ==
    /\ Len(storeCalls) < MaxStoreCalls
    /\ SetWorld(EntityStore_unregister(World, StoreType, id))
    /\ Called("unregister", id, 0, 0, TRUE)
    /\ UNCHANGED <<configuration, maxRetry, retryTimeout, ops, sets, Standalone>>

Store_unregisterEntity(ref) ==
    /\ Len(storeCalls) < MaxStoreCalls
    /\ ref \in DOMAIN entities
    /\ SetWorld(EntityStore_unregisterEntity(World, StoreType, ref))
    /\ Called("unregisterEntity", entities[ref].id, ref, 0, TRUE)
    /\ UNCHANGED <<configuration, maxRetry, retryTimeout, ops, sets, Standalone>>

Store_getEntityObservable(id, createObservable) ==
    /\ Len(storeCalls) < MaxStoreCalls
    /\ LET r == EntityStore_getEntityObservable(World, StoreType, id, createObservable)
       IN /\ SetWorld(r.w)
          /\ Called("getEntityObservable", id, 0, r.ret,
                    r.w.entitiesLiveStore # entitiesLiveStore)
    /\ UNCHANGED <<configuration, maxRetry, retryTimeout, ops, sets, Standalone>>

InitStore ==
    /\ configuration = [retryTimeout |-> 2, maxRetry |-> 1, useDiff |-> FALSE,
                        map |-> [type \in Types |-> [cached |-> FALSE]]]
    /\ retryTimeout = OrDefault(configuration.retryTimeout, DefaultRetryTimeout)
    /\ maxRetry = OrDefault(configuration.maxRetry, DefaultMaxRetry)
    /\ entities = <<>>
    /\ entitySubjects = <<>>
    /\ collectionSubjects = <<>>
    /\ entitiesLiveStore = [type \in {StoreType} |-> NewEntityStore]
    /\ collectionsLiveStore = EmptyMap
    /\ ops = <<>>
    /\ sets = 0
    /\ storeCalls = <<>>
    /\ StandaloneInit

NextStore ==
    \/ \E id \in StoreIds : Store_registerEntity(id)
    \/ \E id \in StoreIds : Store_registerEntitySubject(id)
    \/ \E id \in StoreIds : Store_unregister(id)
    \/ \E ref \in DOMAIN entities : Store_unregisterEntity(ref)
    \/ \E id \in StoreIds, createObservable \in BOOLEAN :
            Store_getEntityObservable(id, createObservable)

SpecStore == InitStore /\ [][NextStore]_vars

\* ============================================================ properties
Emitted(op) ==
    CASE op.kind = "deleteEntity" -> op.out # <<>>
      [] op.kind = "loadCollection" ->
            op.subj # 0 /\ (collectionSubjects[op.subj].hist # <<>> \/ collectionSubjects[op.subj].err)
      [] OTHER ->
            op.subj # 0 /\ (entitySubjects[op.subj].hist # <<>> \/ entitySubjects[op.subj].err)

StreamErrored(op) ==
    CASE op.kind = "deleteEntity" -> op.out # <<>> /\ Last(op.out) = "error"
      [] op.kind = "loadCollection" -> collectionSubjects[op.subj].err
      [] OTHER -> entitySubjects[op.subj].err

\* C1: a loadEntity whose transport only signals transient errors (code <= 0)
\* re-issues the transport call exactly min(maxRetry, failures) times, and,
\* when it is the only operation, its stream carries exactly one emission:
\* the entity on success, the error on exhaustion.
C1_RetriesAreMinOfMaxRetry ==
    \A i \in DOMAIN ops :
        (ops[i].kind = "loadEntity" /\ ops[i].st \in {"succeeded", "failed"} /\ ops[i].code <= 0)
        => /\ ops[i].calls - 1 = Min(maxRetry, ops[i].fails)
           /\ Len(ops) = 1 =>
                IF ops[i].st = "succeeded"
                THEN Len(entitySubjects[ops[i].subj].hist) = 1 /\ ~entitySubjects[ops[i].subj].err
                ELSE entitySubjects[ops[i].subj].hist = <<>> /\ entitySubjects[ops[i].subj].err

C3_FailedLoadIsRefetched ==
    /\ (Len(ops) = 1 /\ ops[1].st = "failed" /\ ops[1].kind = "loadEntity")
       => ~EntityStore_isInStore(entitiesLiveStore[ops[1].type], ops[1].id)
    /\ (Len(ops) = 1 /\ ops[1].st = "failed" /\ ops[1].kind = "loadCollection")
       => ~CollectionStore_isInStore(collectionsLiveStore[ops[1].type], ops[1].filter)
    /\ \A j \in DOMAIN ops :
          (ops[j].kind \in {"loadEntity", "loadCollection"} /\ ops[j].afterFail /\ ~ops[j].hit)
          => /\ ops[j].calls >= 1
             /\ \A i \in 1..(j - 1) :
                   (ops[i].kind = ops[j].kind /\ ops[i].st = "failed"
                    /\ ops[i].id = ops[j].id /\ ops[i].filter = ops[j].filter)
                   => ops[i].subj # ops[j].subj

\* C4: on a cached endpoint a loadEntity for an id with no entry in the entity
\* store issues a transport call, also when the type's store already exists.
C4_CachedMissCallsTransport ==
    \A i \in DOMAIN ops :
        (ops[i].kind = "loadEntity" /\ useCache(ops[i].type) /\ ~ops[i].hit)
        => ops[i].calls >= 1

\* C5: on a cached endpoint a loadCollection for a filter with no materialized
\* collection issues a transport call and does not raise, whether or not the
\* type's collection store exists.
C5_CachedCollectionMissCallsTransport ==
    \A i \in DOMAIN ops :
        (ops[i].kind = "loadCollection" /\ useCache(ops[i].type) /\ ~ops[i].hit)
        => ~ops[i].threw /\ ops[i].calls >= 1

\* C6: of two loadEntity calls for the same type and id, the stream handed to
\* the earlier call receives the entity fetched by the later one, as long as
\* the id was not evicted.
C6_EarlierStreamSeesLaterEntity ==
    \A j \in DOMAIN ops : \A i \in 1..(j - 1) :
        (/\ ops[i].kind = "loadEntity" /\ ops[j].kind = "loadEntity"
         /\ ops[i].type = ops[j].type /\ ops[i].id = ops[j].id
         /\ ~ops[i].evicted /\ ops[j].reg # 0)
        => Contains(entitySubjects[ops[i].subj].hist, ops[j].reg)

\* an entity's attributes against a filter, as the data model defines it
C7_Matches(attributes, filter) ==
    \A key \in FilterKeys(filter) :
        attributes[key] = Undefined \/ attributes[key] = FilterValue(filter, key)
C7_Differs(attributes, filter) ==
    \E key \in FilterKeys(filter) :
        attributes[key] # Undefined /\ attributes[key] # FilterValue(filter, key)

\* the step in which the response handler of operation i ran
\* DataConnector.registerEntity on the entity ops'[i].reg
C7_RegisterStep(i) ==
    /\ ops[i].kind \in {"loadEntity", "saveEntity", "createEntity"}
    /\ ops[i].st = "pending" /\ ops'[i].st = "succeeded"

\* C7: with a collection materialized under filter F, a registerEntity of an
\* entity matching F makes F's stream emit once a collection containing the
\* entity; a registerEntity of an entity differing from F on a key of F
\* leaves that collection's members and F's stream as they were.
C7_RegisterEntityFansOut ==
    [][\A i \in DOMAIN ops : C7_RegisterStep(i) =>
          \A type \in DOMAIN collectionsLiveStore :
             \A hash \in DOMAIN collectionsLiveStore[type].collections :
                LET store == collectionsLiveStore[type]
                    s == store.collectionObservables[hash]
                    e == entities'[ops'[i].reg]
                IN (type = e.type) =>
                   /\ C7_Matches(e.attributes, store.filters[hash]) =>
                        /\ Len(collectionSubjects'[s].hist) = Len(collectionSubjects[s].hist) + 1
                        /\ Contains(Last(collectionSubjects'[s].hist), ops'[i].reg)
                        /\ Contains(collectionsLiveStore'[type].collections[hash], ops'[i].reg)
                   /\ C7_Differs(e.attributes, store.filters[hash]) =>
                        /\ collectionsLiveStore'[type].collections[hash] = store.collections[hash]
                        /\ collectionSubjects'[s].hist = collectionSubjects[s].hist]_vars

OpenFilter == <<(<<"status", "open">>)>>

C7_Witness ==
    \E i \in DOMAIN ops : \E type \in DOMAIN collectionsLiveStore :
        LET store == collectionsLiveStore[type]
            hash == ObjectHash(OpenFilter)
        IN /\ ops[i].kind = "loadEntity" /\ ops[i].st = "succeeded"
           /\ entities[ops[i].reg].attributes["status"] = "open"
           /\ hash \in DOMAIN store.collections
           /\ Len(collectionSubjects[store.collectionObservables[hash]].hist) = 2
           /\ Contains(Last(collectionSubjects[store.collectionObservables[hash]].hist), ops[i].reg)

\* C8: after a deleteEntity succeeded the entity is a member of no stored
\* collection, the entity store has no entry for its id, and a later
\* loadEntity for that id (entry still absent) calls the transport.
C8_DeletedEntityIsGone ==
    \A i \in DOMAIN ops :
        (ops[i].kind = "deleteEntity" /\ ops[i].st = "succeeded")
        => /\ \A type \in DOMAIN collectionsLiveStore :
                \A hash \in DOMAIN collectionsLiveStore[type].collections :
                    ~Contains(collectionsLiveStore[type].collections[hash], ops[i].ent)
           /\ i = Len(ops) =>
                \A type \in DOMAIN entitiesLiveStore :
                    ~EntityStore_isInStore(entitiesLiveStore[type], ops[i].id)
           /\ \A j \in (i + 1)..Len(ops) :
                (ops[j].kind = "loadEntity" /\ ops[j].id = ops[i].id /\ ~ops[j].hit)
                => ops[j].calls >= 1

\* C9: an operation whose transport has answered every attempt, and that has
\* no attempt outstanding, has produced a payload or an error on its stream;
\* an error after transient failures only comes once the budget is used up.
C9_AnsweredOperationEmits ==
    \A i \in DOMAIN ops :
        /\ ops[i].st \in {"succeeded", "failed", "nodata"} => Emitted(ops[i])
        /\ (ops[i].st = "failed" /\ ops[i].code <= 0) => ops[i].calls - 1 >= maxRetry

Position(hist, ref) == CHOOSE p \in DOMAIN hist : hist[p] = ref

\* registrations i < j of the same id, with the id's index entry neither
\* removed nor replaced in between
C10_SameRun(i, j) ==
    /\ i < j
    /\ storeCalls[i].op = "registerEntity" /\ storeCalls[j].op = "registerEntity"
    /\ storeCalls[i].id = storeCalls[j].id /\ storeCalls[i].id # TempId
    /\ \A k \in (i + 1)..(j - 1) :
          ~(storeCalls[k].id = storeCalls[i].id /\ storeCalls[k].reset)

InitUnlimited ==
    /\ configuration \in [retryTimeout : RetryTimeouts, maxRetry : {-1},
                          useDiff : BOOLEAN,
                          map : [Types -> [cached : BOOLEAN]]]
    /\ retryTimeout = OrDefault(configuration.retryTimeout, DefaultRetryTimeout)
    /\ maxRetry = OrDefault(configuration.maxRetry, DefaultMaxRetry)
    /\ entities = <<>>
    /\ entitySubjects = <<>>
    /\ collectionSubjects = <<>>
    /\ entitiesLiveStore = EmptyMap
    /\ collectionsLiveStore = EmptyMap
    /\ ops = <<>>
    /\ sets = 0
    /\ storeCalls = <<>>
    /\ StandaloneInit

SpecUnlimited == InitUnlimited /\ [][Next]_vars

\* C11: with maxRetry = -1 no operation reaches FAILED after a transient
\* failure (code <= 0): every such failure schedules another attempt.
C11_UnlimitedNeverExhausts ==
    maxRetry = -1 =>
        \A i \in DOMAIN ops : ops[i].st = "failed" => ops[i].code > 0

\* ------------------------------------------------ one DataCollection, directly
MaxCollectionCalls == 3
CollectionIds == {0, 1, TempId}
\* arrays of records a transport hands to the constructor: distinct ids
CollectionData ==
    {<<>>} \cup {<<Record(a, "open")>> : a \in CollectionIds}
    \cup {<<Record(p[1], "open"), Record(p[2], "closed")>> :
              p \in {q \in CollectionIds \X CollectionIds : q[1] # q[2]}}

Logged(op, id, ref) == log' = Append(log, [op |-> op, id |-> id, ref |-> ref])

\* collection.registerEntity(entity, observable) with a new entity
Collection_registerEntity(id, status) ==
    /\ Len(log) < MaxCollectionCalls
    /\ LET ref == Len(entities) + 1
           heap == Append(entities, DataEntity_new(StoreType, Record(id, status), id))
       IN /\ entities' = heap
          /\ collection' = DataCollection_registerEntity(heap, collection, ref)
          /\ Logged("registerEntity", id, ref)
    /\ UNCHANGED <<configuration, maxRetry, retryTimeout, entitySubjects, collectionSubjects,
                   entitiesLiveStore, collectionsLiveStore, ops, sets, storeCalls,
                   localStorage, pushListeners, listenerSubjects, http, nodejs>>

Collection_deleteEntity(id) ==
    /\ Len(log) < MaxCollectionCalls
    /\ collection' = DataCollection_deleteEntity(entities, collection, id, 1)
    /\ Logged("deleteEntity", id, 0)
    /\ UNCHANGED <<configuration, maxRetry, retryTimeout, entities, entitySubjects,
                   collectionSubjects, entitiesLiveStore, collectionsLiveStore, ops, sets,
                   storeCalls, localStorage, pushListeners, listenerSubjects, http, nodejs>>

InitCollection ==
    /\ configuration = [retryTimeout |-> 2, maxRetry |-> 1, useDiff |-> FALSE,
                        map |-> [type \in Types |-> [cached |-> FALSE]]]
    /\ retryTimeout = OrDefault(configuration.retryTimeout, DefaultRetryTimeout)
    /\ maxRetry = OrDefault(configuration.maxRetry, DefaultMaxRetry)
    /\ \E data \in CollectionData :
          LET c == DataCollection_new(<<>>, StoreType, data, <<>>)
          IN entities = c.entities /\ collection = c.refs
    /\ entitySubjects = <<>>
    /\ collectionSubjects = <<>>
    /\ entitiesLiveStore = EmptyMap
    /\ collectionsLiveStore = EmptyMap
    /\ ops = <<>>
    /\ sets = 0
    /\ storeCalls = <<>>
    /\ localStorage = NewLocalStorage
    /\ pushListeners = EmptyMap
    /\ listenerSubjects = <<>>
    /\ log = <<>>
    /\ http = NewHttp
    /\ nodejs = NewNodejs

NextCollection ==
    \/ \E id \in CollectionIds, status \in Vals : Collection_registerEntity(id, status)
    \/ \E id \in CollectionIds : Collection_deleteEntity(id)

SpecCollection == InitCollection /\ [][NextCollection]_vars

UniqueIds(heap, members) ==
    \A i \in DOMAIN members : \A j \in DOMAIN members :
        i # j => heap[members[i]].id # heap[members[j]].id

\* C12: a collection holds at most one member per entity id (0 and -1
\* included); a registerEntity of an entity whose id equals a member's id
\* replaces that member in place, the length unchanged, and otherwise appends.
C12_OneMemberPerId ==
    [][(log' # log /\ Last(log').op = "registerEntity") =>
          LET ref == Last(log').ref
              same == {i \in DOMAIN collection : entities[collection[i]].id = Last(log').id}
          IN /\ UniqueIds(entities', collection')
             /\ IF same # {}
                THEN \E i \in same : collection' = [collection EXCEPT ![i] = ref]
                ELSE collection' = Append(collection, ref)]_vars

HistLen(subjects, s) == IF s \in DOMAIN subjects THEN Len(subjects[s].hist) ELSE 0

\* C13: every collection emitted on the stream returned by loadCollection(type, F)
\* holds only entities whose attributes carry F[k] for every key k of F.
C13_EmittedMembersCarryFilter ==
    [][\A i \in DOMAIN ops' :
          (/\ ops'[i].kind = "loadCollection" /\ ops'[i].subj # 0
           /\ HistLen(collectionSubjects', ops'[i].subj) > HistLen(collectionSubjects, ops'[i].subj))
          => LET emitted == Last(collectionSubjects'[ops'[i].subj].hist)
             IN \A m \in DOMAIN emitted : \A key \in FilterKeys(ops'[i].filter) :
                   entities'[emitted[m]].attributes[key] = FilterValue(ops'[i].filter, key)]_vars

\* ------------------------------------- entities: temporary ones, set and save
MaxEntityOps == 3
SetValues == Vals \cup {Undefined}

\* connector.createTemporaryEntity(type, data): no transport involved
createTemporaryEntity(type, attributes) ==
    /\ Len(ops) < MaxEntityOps
    /\ LET s == Len(entitySubjects) + 1
           ref == Len(entities) + 1
           data == [id |-> UndefinedId, attributes |-> attributes]
           w1 == [World EXCEPT !.entitySubjects = Append(@, NewReplaySubject),
                               !.entities = Append(@, DataEntity_new(type, data, TempId))]
           w2 == EntityStore_registerEntitySubject(EnsureEntityStore(w1, type), type, NullId, s)
           r == DataConnector_registerEntity(w2, type, NullId, ref)
       IN /\ SetWorld(r.w)
          /\ ops' = Append(ops, [NewOp("createTemporaryEntity", type) EXCEPT
                                    !.id = TempId, !.ent = ref, !.subj = s, !.st = "local",
                                    !.data = attributes])
    /\ UNCHANGED <<Config, sets>>

\* entity.save() on a temporary entity: this.remove(), then connector.createEntity
saveTemporary(ref) ==
    /\ Len(ops) + 2 <= MaxEntityOps
    /\ ref \in DOMAIN entities /\ entities[ref].id = TempId
    /\ LET entity == entities[ref]
           s == Len(entitySubjects) + 1
           remove == [NewOp("deleteEntity", entity.type) EXCEPT
                         !.id = entity.id, !.ent = ref, !.calls = 1]
           create == [NewOp("createEntity", entity.type) EXCEPT
                         !.ent = ref, !.subj = s, !.data = entity.attributes, !.calls = 1]
       IN /\ SetWorld([World EXCEPT !.entitySubjects = Append(@, NewReplaySubject)])
          /\ ops' = ops \o <<remove, create>>
    /\ UNCHANGED <<Config, sets>>

\* DataEntity.save / saveAction
save(ref) ==
    IF ref \in DOMAIN entities /\ entities[ref].id = TempId
    THEN saveTemporary(ref)
    ELSE saveEntity(ref)

NextEntity ==
    \/ \E type \in Types, attributes \in AttributeSets : createTemporaryEntity(type, attributes)
    \/ \E type \in Types, id \in Ids : loadEntity(type, id)
    \/ \E i \in DOMAIN ops, attributes \in AttributeSets : loadEntity_checkResponse(i, attributes)
    \/ \E type \in Types, filter \in Filters : loadCollection(type, filter)
    \/ \E i \in DOMAIN ops : \E data \in CollectionResponses(ops[i].filter) :
            loadCollection_checkResponse(i, data)
    \/ \E ref \in DOMAIN entities, key \in Keys, value \in SetValues : set(ref, key, value)
    \/ \E ref \in DOMAIN entities : save(ref)
    \/ \E i \in DOMAIN ops : saveEntity_checkResponse(i)
    \/ \E i \in DOMAIN ops, id \in Ids : createEntity_checkResponse(i, id)
    \/ \E i \in DOMAIN ops : deleteEntity_checkResponse(i)

SpecEntity == Init /\ [][NextEntity]_vars

\* the step in which the save stream of operation i delivered its first emission
C14_SaveCompleted(i) ==
    /\ i \in DOMAIN ops' /\ ops'[i].kind \in {"saveEntity", "createEntity"}
    /\ ops'[i].ent # 0 /\ ops'[i].st = "succeeded"
    /\ (i \in DOMAIN ops => ops[i].st = "pending")

\* getDiff after construction and after a completed save
C14_DiffEmptyWhenFresh ==
    /\ \A ref \in DOMAIN entities' : ref \notin DOMAIN entities => getDiff(entities'[ref]) = {}
    /\ \A i \in DOMAIN ops' : C14_SaveCompleted(i) => getDiff(entities'[ops'[i].ent]) = {}

\* getDiff after one set(key, v) on an entity with no other change, for the
\* values v in values
C14_DiffAfterSet(values) ==
    sets' = sets + 1 =>
        \A ref \in DOMAIN entities : \A key \in Keys :
            LET v == entities'[ref].attributes[key]
            IN (/\ v # entities[ref].attributes[key] /\ v \in values
                /\ v # entities[ref].attributesRef[key] /\ getDiff(entities[ref]) = {})
               => getDiff(entities'[ref]) = {key} /\ entities'[ref].attributes[key] = v

IdIndex(stores, type) ==
    IF type \in DOMAIN stores THEN stores[type].entitiesObservables ELSE EmptyMap

TransportCalls(seq) == [i \in DOMAIN seq |-> seq[i].calls]

\* C15: createTemporaryEntity issues no transport call, returns a stream that
\* replays an entity with id -1, and leaves the id index of the entity store
\* as it was for every key, null and -1 included.
C15_TemporaryEntityNotIndexed ==
    [][\A i \in DOMAIN ops' :
          (i \notin DOMAIN ops /\ ops'[i].kind = "createTemporaryEntity")
          => /\ ops'[i].calls = 0
             /\ TransportCalls(SubSeq(ops', 1, Len(ops))) = TransportCalls(ops)
             /\ entitySubjects'[ops'[i].subj].hist # <<>>
             /\ entities'[Last(entitySubjects'[ops'[i].subj].hist)].id = TempId
             /\ IdIndex(entitiesLiveStore', ops'[i].type) = IdIndex(entitiesLiveStore, ops'[i].type)]_vars

\* operations started in this step on behalf of the entity ref
C16_Started(ref) ==
    {i \in DOMAIN ops' : i \notin DOMAIN ops /\ ops'[i].ent = ref
                         /\ ops'[i].kind \in {"saveEntity", "createEntity", "deleteEntity"}}

\* C16: save() on an entity with id -1 issues exactly one createEntity on the
\* transport and no deleteEntity, and leaves the entity in no stored collection;
\* save() on an entity with a real id issues a saveEntity and no create.
C16_SaveTemporaryOnlyCreates ==
    [][\A ref \in DOMAIN entities :
          C16_Started(ref) # {} =>
             IF entities[ref].id = TempId
             THEN /\ \E i \in C16_Started(ref) :
                        /\ C16_Started(ref) = {i}
                        /\ ops'[i].kind = "createEntity" /\ ops'[i].calls = 1
                  /\ \A type \in DOMAIN collectionsLiveStore' :
                        \A hash \in DOMAIN collectionsLiveStore'[type].collections :
                            ~Contains(collectionsLiveStore'[type].collections[hash], ref)
             ELSE \E i \in C16_Started(ref) :
                        C16_Started(ref) = {i} /\ ops'[i].kind = "saveEntity"]_vars

\* -------------------------------------------- the LocalStorage transport, directly
MaxStorageCalls == 4
StorageIds == {1, 2}
NoData == [key \in Keys |-> "null"]

\* JSON.parse(localStorage[pointName]) on first use of the endpoint
loadPointFromStorageIfEmpty(ls) ==
    IF ls.loaded THEN ls ELSE [ls EXCEPT !.loaded = TRUE, !.dataStore = ls.persisted]

\* dataStore[pointName][id] = data, then JSON.stringify into localStorage
setEntityInStore(ls, id, data) ==
    LET l == loadPointFromStorageIfEmpty(ls)
        records == MapPut(l.dataStore, id, data)
    IN [l EXCEPT !.dataStore = records, !.persisted = records]

deleteEntityFromStore(ls, id) ==
    LET l == loadPointFromStorageIfEmpty(ls)
    IN IF id \in DOMAIN l.dataStore
       THEN [ls |-> [l EXCEPT !.dataStore = MapDel(@, id), !.persisted = MapDel(l.dataStore, id)],
             ret |-> TRUE]
       ELSE [ls |-> l, ret |-> FALSE]

\* variant: the new id is the number of stored records plus one
LocalStorage_createEntity_CountIds(ls, data) ==
    LET newId == Cardinality(DOMAIN loadPointFromStorageIfEmpty(ls).dataStore) + 1
    IN [ls |-> setEntityInStore([ls EXCEPT !.lastUsedId = newId], newId, data), ret |-> newId]
LocalStorage_createEntity(ls, data) ==
    LET newId == ls.lastUsedId + 1
    IN [ls |-> setEntityInStore([ls EXCEPT !.lastUsedId = newId], newId, data), ret |-> newId]

LocalStorage_loadEntity(ls, id) ==
    LET l == loadPointFromStorageIfEmpty(ls)
    IN [ls |-> l, ret |-> IF id \in DOMAIN l.dataStore THEN l.dataStore[id] ELSE NoData]

StorageFrame == <<configuration, maxRetry, retryTimeout, entities, entitySubjects,
                  collectionSubjects, entitiesLiveStore, collectionsLiveStore, ops, sets,
                  storeCalls, collection, pushListeners, listenerSubjects, http, nodejs>>

StorageCall(op, id, data) == log' = Append(log, [op |-> op, id |-> id, data |-> data])

Storage_createEntity(data) ==
    /\ Len(log) < MaxStorageCalls
    /\ LET r == LocalStorage_createEntity(localStorage, data)
       IN localStorage' = r.ls /\ StorageCall("createEntity", r.ret, data)
    /\ UNCHANGED StorageFrame

Storage_saveEntity(id, data) ==
    /\ Len(log) < MaxStorageCalls
    /\ localStorage' = setEntityInStore(localStorage, id, data)
    /\ StorageCall("saveEntity", id, data)
    /\ UNCHANGED StorageFrame

Storage_deleteEntity(id) ==
    /\ Len(log) < MaxStorageCalls
    /\ localStorage' = deleteEntityFromStore(localStorage, id).ls
    /\ StorageCall("deleteEntity", id, NoData)
    /\ UNCHANGED StorageFrame

Storage_loadEntity(id) ==
    /\ Len(log) < MaxStorageCalls
    /\ LET r == LocalStorage_loadEntity(localStorage, id)
       IN localStorage' = r.ls /\ StorageCall("loadEntity", id, r.ret)
    /\ UNCHANGED StorageFrame

\* LocalStorage.clear: the in-memory copy is dropped
Storage_clear ==
    /\ Len(log) < MaxStorageCalls
    /\ localStorage' = [localStorage EXCEPT !.loaded = FALSE, !.dataStore = EmptyMap]
    /\ StorageCall("clear", 0, NoData)
    /\ UNCHANGED StorageFrame

InitStorage ==
    /\ configuration = [retryTimeout |-> 2, maxRetry |-> 1, useDiff |-> FALSE,
                        map |-> [type \in Types |-> [cached |-> FALSE]]]
    /\ retryTimeout = OrDefault(configuration.retryTimeout, DefaultRetryTimeout)
    /\ maxRetry = OrDefault(configuration.maxRetry, DefaultMaxRetry)
    /\ entities = <<>>
    /\ entitySubjects = <<>>
    /\ collectionSubjects = <<>>
    /\ entitiesLiveStore = EmptyMap
    /\ collectionsLiveStore = EmptyMap
    /\ ops = <<>>
    /\ sets = 0
    /\ storeCalls = <<>>
    /\ StandaloneInit

NextStorage ==
    \/ \E data \in AttributeSets : Storage_createEntity(data)
    \/ \E id \in StorageIds, data \in AttributeSets : Storage_saveEntity(id, data)
    \/ \E id \in StorageIds : Storage_deleteEntity(id)
    \/ \E id \in StorageIds : Storage_loadEntity(id)
    \/ Storage_clear

SpecStorage == InitStorage /\ [][NextStorage]_vars

Creations == {i \in DOMAIN log : log[i].op = "createEntity"}

\* C17: the localstorage transport gives every createEntity the previously
\* assigned id plus one (1 for the first), also after deletions, and a
\* loadEntity of a created id returns the created data until that id is saved
\* over or deleted.
C17_SequentialIdsAndReadBack ==
    /\ \A i \in Creations :
          log[i].id = Cardinality({j \in Creations : j < i}) + 1
    /\ \A i \in Creations : \A j \in DOMAIN log :
          (/\ i < j /\ log[j].op = "loadEntity" /\ log[j].id = log[i].id
           /\ \A k \in (i + 1)..(j - 1) :
                 ~(log[k].op \in {"saveEntity", "deleteEntity"} /\ log[k].id = log[i].id))
          => log[j].data = log[i].data

C17_Witness ==
    /\ Len(log) = 4
    /\ log[1].op = "createEntity" /\ log[2].op = "deleteEntity" /\ log[2].id = 1
    /\ log[3].op = "createEntity" /\ log[3].id = 2
    /\ log[4].op = "loadEntity" /\ log[4].id = 2 /\ log[4].data = log[3].data
    /\ log[3].data["status"] = "open"

MemberIds(heap, members) == {heap[members[m]].id : m \in DOMAIN members}

StoredIds(stores, heap, type, filter) ==
    IF type \in DOMAIN stores /\ ObjectHash(filter) \in DOMAIN stores[type].collections
    THEN MemberIds(heap, stores[type].collections[ObjectHash(filter)])
    ELSE {}

\* C18: when the response of a loadCollection(type, F) is registered, every
\* entity that was a member of the collection stored for F is still a member:
\* the response is merged into the stored collection.
C18_ResponseMergesIntoStored ==
    [][\A i \in DOMAIN ops :
          (ops[i].kind = "loadCollection" /\ ops[i].st = "pending" /\ ops'[i].st = "succeeded")
          => StoredIds(collectionsLiveStore, entities, ops[i].type, ops[i].filter)
                \subseteq StoredIds(collectionsLiveStore', entities', ops[i].type, ops[i].filter)]_vars

\* ------------------------------------------------- paginatedLoadCollection
MaxPageOps == 3

\* what a backend may answer for one page of a filter
PageResponses(filter) ==
    CollectionResponses(filter) \cup {<<Record(2, "open"), Record(1, "open")>>}

\* paginatedLoadCollectionExec: the collection subject of the filter is
\* handed back and the page is requested from the transport
paginatedLoadCollection(type, filter) ==
    /\ Len(ops) < MaxPageOps
    /\ LET op == [NewOp("paginatedLoadCollection", type) EXCEPT !.filter = filter]
                    @@ [page |-> <<>>]
           r == DataConnector_getCollectionObservable(World, type, filter, FALSE)
       IN /\ SetWorld(r.w)
          /\ ops' = Append(ops, [op EXCEPT !.subj = r.ret, !.calls = 1])
    /\ UNCHANGED <<Config, sets>>

\* checkResponse: the page becomes a DataCollection flagged paginated and is
\* registered
paginatedLoadCollection_checkResponse(i, data) ==
    /\ i \in DOMAIN ops /\ ops[i].kind = "paginatedLoadCollection" /\ ops[i].st = "pending"
    /\ LET op == ops[i]
           coll == DataCollection_new(entities, op.type, data, <<>>)
           w1 == [World EXCEPT !.entities = coll.entities]
       IN SetWorld(DataConnector_registerCollection(w1, op.type, op.filter, coll.refs, TRUE))
    /\ ops' = [ops EXCEPT ![i].st = "succeeded", ![i].page = data]
    /\ UNCHANGED <<Config, sets>>

\* errorHandler of paginatedLoadCollectionExec: same branches as loadCollection's
paginatedLoadCollection_errorHandler(i, code) ==
    /\ i \in DOMAIN ops /\ ops[i].kind = "paginatedLoadCollection" /\ ops[i].st = "pending"
    /\ LET op == [ops[i] EXCEPT !.code = code,
                                !.fails = IF code <= 0 THEN @ + 1 ELSE @]
       IN IF IsTerminal(code) \/ ~MayRetry(op.type, op.count)
          THEN LET f == OnFailed(World, [op EXCEPT !.kind = "loadCollection"])
               IN /\ SetWorld(f.w)
                  /\ ops' = [ops EXCEPT ![i] = [op EXCEPT !.st = "failed", !.threw = f.threw]]
          ELSE /\ ops' = [ops EXCEPT ![i] = [op EXCEPT !.st = "retrying", !.count = @ + 1]]
               /\ UNCHANGED <<entities, entitySubjects, collectionSubjects,
                              entitiesLiveStore, collectionsLiveStore>>
    /\ UNCHANGED <<Config, sets>>

NextPaginated ==
    \/ \E type \in Types, filter \in Filters : paginatedLoadCollection(type, filter)
    \/ \E i \in DOMAIN ops : \E data \in PageResponses(ops[i].filter) :
            paginatedLoadCollection_checkResponse(i, data)
    \/ \E i \in DOMAIN ops, code \in ErrorCodes : paginatedLoadCollection_errorHandler(i, code)
    \/ \E i \in DOMAIN ops : retry(i)
    \/ \E type \in Types, filter \in Filters : loadCollection(type, filter)
    \/ \E i \in DOMAIN ops : \E data \in CollectionResponses(ops[i].filter) :
            loadCollection_checkResponse(i, data)

\* the paginated path never consults useDiff or the cache flag: one configuration
InitPaginated ==
    /\ Init
    /\ ~configuration.useDiff
    /\ \A type \in Types : ~configuration.map[type].cached

SpecPaginated == InitPaginated /\ [][NextPaginated]_vars

C19_PageRegistered(i) ==
    /\ ops[i].kind = "paginatedLoadCollection"
    /\ ops[i].st = "pending" /\ ops'[i].st = "succeeded"

\* C19: when a page response for filter F is registered, the collection stored
\* for F holds exactly the entities of that page, in page order, all of them
\* built from this page; no collection stored under another filter loses a
\* member or disappears.
C19_PageReplacesStored ==
    [][\A i \in DOMAIN ops : C19_PageRegistered(i) =>
          LET hash == ObjectHash(ops[i].filter)
              before == collectionsLiveStore[ops[i].type].collections
              after == collectionsLiveStore'[ops[i].type].collections
              page == ops'[i].page
          IN /\ hash \in DOMAIN after
             /\ Len(after[hash]) = Len(page)
             /\ \A m \in DOMAIN after[hash] :
                    /\ after[hash][m] > Len(entities)
                    /\ entities'[after[hash][m]].id = page[m].id
                    /\ entities'[after[hash][m]].attributes = page[m].attributes
             /\ \A h \in DOMAIN before \ {hash} :
                    /\ h \in DOMAIN after
                    /\ MemberIds(entities, before[h]) \subseteq MemberIds(entities', after[h])]_vars

\* two different pages of one filter have been registered while another
\* filter holds a collection with members
C19_Witness ==
    \E i, j \in DOMAIN ops :
        /\ i # j /\ ops[i].kind = "paginatedLoadCollection" /\ ops[j].kind = "paginatedLoadCollection"
        /\ ops[i].st = "succeeded" /\ ops[j].st = "succeeded"
        /\ ops[i].type = ops[j].type /\ ops[i].filter = ops[j].filter
        /\ Len(ops[i].page) = 2 /\ Len(ops[j].page) = 1
        /\ LET stored == collectionsLiveStore[ops[i].type].collections
           IN /\ ObjectHash(ops[i].filter) \in DOMAIN stored
              /\ Len(stored[ObjectHash(ops[i].filter)]) = 1
              /\ \E h \in DOMAIN stored \ {ObjectHash(ops[i].filter)} : stored[h] # <<>>

\* ------------------------------------------------------------ server pushes
MaxListenCalls == 3

\* payloads a transport may push
PushedData == {Record(id, "open") : id \in Ids}

ListenFrame == <<configuration, maxRetry, retryTimeout, storeCalls, collection, localStorage,
                 sets, ops, http, nodejs>>

\* a plain Subject: the values emitted on it, in order
NewSubject == [hist |-> <<>>, err |-> FALSE]

\* listen: the Subject indexed for the endpoint, created when none is indexed
listen(type) ==
    /\ Len(log) < MaxListenCalls
    /\ IF type \in DOMAIN pushListeners
       THEN /\ log' = Append(log, [op |-> "listen", type |-> type, ref |-> pushListeners[type]])
            /\ UNCHANGED <<pushListeners, listenerSubjects>>
       ELSE LET s == Len(listenerSubjects) + 1
            IN /\ listenerSubjects' = Append(listenerSubjects, NewSubject)
               /\ pushListeners' = MapPut(pushListeners, type, s)
               /\ log' = Append(log, [op |-> "listen", type |-> type, ref |-> s])
    /\ UNCHANGED <<ListenFrame, entities, entitySubjects, collectionSubjects,
                   entitiesLiveStore, collectionsLiveStore>>

\* registerEntityByData: the transport reports an out-of-band create/update;
\* the entity is registered in both stores and handed to the endpoint's
\* listener when one is indexed
registerEntityByData(type, id, attributes) ==
    /\ Len(log) < MaxListenCalls
    /\ LET w0 == EnsureCollectionStore(EnsureEntityStore(World, type), type)
           ref == Len(w0.entities) + 1
           w1 == [w0 EXCEPT !.entities =
                      Append(@, DataEntity_new(type, [id |-> id, attributes |-> attributes], id))]
           w2 == DataConnector_getEntitySubject(w1, type, id, FALSE).w
           w3 == CollectionStore_registerEntityInCollections(w2, type, ref, TRUE)
           w4 == EntityStore_registerEntity(w3, type, ref, id).w
       IN /\ SetWorld(w4)
          /\ listenerSubjects' =
                IF type \in DOMAIN pushListeners
                THEN [listenerSubjects EXCEPT ![pushListeners[type]] = SubjectNext(@, ref)]
                ELSE listenerSubjects
          /\ log' = Append(log, [op |-> "push", type |-> type, ref |-> ref])
    /\ UNCHANGED <<ListenFrame, pushListeners>>

\* clear: the three indexes are replaced by empty objects
DataConnector_clear ==
    /\ entitiesLiveStore' = EmptyMap
    /\ collectionsLiveStore' = EmptyMap
    /\ pushListeners' = EmptyMap
    /\ UNCHANGED <<ListenFrame, entities, entitySubjects, collectionSubjects, listenerSubjects>>

clear ==
    /\ Len(log) < MaxListenCalls
    /\ DataConnector_clear
    /\ log' = Append(log, [op |-> "clear", type |-> "", ref |-> 0])

\* logout: clear(), then the transport's logout
logout ==
    /\ Len(log) < MaxListenCalls
    /\ DataConnector_clear
    /\ log' = Append(log, [op |-> "logout", type |-> "", ref |-> 0])

NextListen ==
    \/ \E type \in Types : listen(type)
    \/ \E type \in Types, data \in PushedData :
            registerEntityByData(type, data.id, data.attributes)
    \/ clear
    \/ logout
    \/ \E type \in Types, id \in Ids : loadEntity(type, id)
    \/ \E i \in DOMAIN ops, attributes \in AttributeSets : loadEntity_checkResponse(i, attributes)

SpecListen == InitPaginated /\ [][NextListen]_vars

\* the entities pushed for an endpoint after position k of the log, in order
RECURSIVE PushedAfter(_, _, _)
PushedAfter(seq, k, type) ==
    IF k >= Len(seq) THEN <<>>
    ELSE (IF seq[k + 1].op = "push" /\ seq[k + 1].type = type THEN <<seq[k + 1].ref>> ELSE <<>>)
         \o PushedAfter(seq, k + 1, type)

\* C20: the stream returned by the first listen(type) has received exactly the
\* entities pushed for that type since, once each and in push order, whatever
\* was called in between (logout and clear included), and every later
\* listen(type) returned that same stream.
C20_ListenerReceivesEveryPush ==
    \A k \in DOMAIN log :
        (log[k].op = "listen" /\ \A j \in 1..(k - 1) : ~(log[j].op = "listen" /\ log[j].type = log[k].type))
        => /\ listenerSubjects[log[k].ref].hist = PushedAfter(log, k, log[k].type)
           /\ \A j \in DOMAIN log :
                (log[j].op = "listen" /\ log[j].type = log[k].type) => log[j].ref = log[k].ref

\* ----------------------------------------------- CollectionStore.filterMatching
MaxFilterCalls == 2
FilterKeyUniverse == {"status", "lang"}

\* filter objects over two keys, in every insertion order of their keys
FilterObjects ==
    {<<>>}
    \cup {<<(<<key, value>>)>> : key \in FilterKeyUniverse, value \in Vals}
    \cup {<<(<<p[1], v[1]>>), (<<p[2], v[2]>>)>> :
            p \in {q \in FilterKeyUniverse \X FilterKeyUniverse : q[1] # q[2]},
            v \in Vals \X Vals}

\* what a caller may pass for a filter parameter
FilterArguments ==
    {[kind |-> "object", filter |-> filter] : filter \in FilterObjects}
    \cup {[kind |-> "null", filter |-> <<>>], [kind |-> "undefined", filter |-> <<>>]}

\* default parameter: undefined (and only undefined) becomes {}
DefaultFilter(argument) ==
    IF argument.kind = "undefined" THEN [kind |-> "object", filter |-> <<>>] ELSE argument

\* the method as called: defaults, the null guard, then the comparison
CollectionStore_filterMatching(argument1, argument2) ==
    LET filter1 == DefaultFilter(argument1)
        filter2 == DefaultFilter(argument2)
    IN IF filter1.kind = "null" \/ filter2.kind = "null" THEN FALSE
       ELSE filterMatching(filter1.filter, filter2.filter)

Filter_filterMatching(argument1, argument2) ==
    /\ Len(log) < MaxFilterCalls
    /\ log' = Append(log, [op |-> "filterMatching", a1 |-> argument1, a2 |-> argument2,
                           ret |-> CollectionStore_filterMatching(argument1, argument2),
                           swapped |-> CollectionStore_filterMatching(argument2, argument1)])
    /\ UNCHANGED <<configuration, maxRetry, retryTimeout, entities, entitySubjects,
                   collectionSubjects, entitiesLiveStore, collectionsLiveStore, ops, sets,
                   storeCalls, collection, localStorage, pushListeners, listenerSubjects, http, nodejs>>

NextFilter ==
    \E argument1 \in FilterArguments, argument2 \in FilterArguments :
        Filter_filterMatching(argument1, argument2)

SpecFilter == InitPaginated /\ [][NextFilter]_vars

\* same key set and the same value under every key
SameContent(filter1, filter2) ==
    /\ FilterKeys(filter1) = FilterKeys(filter2)
    /\ \A key \in FilterKeys(filter1) : FilterValue(filter1, key) = FilterValue(filter2, key)

\* C21: filterMatching(f1, f2) is true exactly when both arguments are given
\* filter objects (neither null nor absent) with the same key set and the same
\* value per key; the result does not depend on the order of the arguments.
C21_MatchesIffSameGivenFilters ==
    \A k \in DOMAIN log :
        /\ log[k].ret = (/\ log[k].a1.kind = "object" /\ log[k].a2.kind = "object"
                         /\ SameContent(log[k].a1.filter, log[k].a2.filter))
        /\ log[k].ret = log[k].swapped

\* ------------------------------------------ one CollectionStore driven directly
MaxCollectionStoreCalls == 3

\* filters with two keys in both insertion orders, and filters differing from
\* them in a key or a value
StoreFilters ==
    {<<>>,
     <<(<<"status", "open">>)>>,
     <<(<<"status", "open">>), (<<"lang", "open">>)>>,
     <<(<<"lang", "open">>), (<<"status", "open">>)>>,
     <<(<<"status", "open">>), (<<"lang", "closed">>)>>,
     <<(<<"lang", "closed">>), (<<"status", "open">>)>>}

StoreCollections == {<<>>, <<Record(1, "open")>>}

CStoreFrame == <<configuration, maxRetry, retryTimeout, ops, sets, storeCalls, collection,
                 localStorage, pushListeners, listenerSubjects, http, nodejs>>

CStoreCalled(op, filter, ret) ==
    log' = Append(log, [op |-> op, filter |-> filter, ret |-> ret])

CStore_registerCollection(data, filter) ==
    /\ Len(log) < MaxCollectionStoreCalls
    /\ LET c == DataCollection_new(entities, StoreType, data, <<>>)
           r == CollectionStore_registerCollection([World EXCEPT !.entities = c.entities],
                                                   StoreType, c.refs, filter)
       IN SetWorld(r.w) /\ CStoreCalled("registerCollection", filter, r.ret)
    /\ UNCHANGED CStoreFrame

CStore_isInStore(filter) ==
    /\ Len(log) < MaxCollectionStoreCalls
    /\ CStoreCalled("isInStore", filter,
                    IF CollectionStore_isInStore(collectionsLiveStore[StoreType], filter)
                    THEN 1 ELSE 0)
    /\ UNCHANGED <<CStoreFrame, entities, entitySubjects, collectionSubjects,
                   entitiesLiveStore, collectionsLiveStore>>

CStore_getCollectionSubject(filter, cache) ==
    /\ Len(log) < MaxCollectionStoreCalls
    /\ LET r == CollectionStore_getCollectionSubject(World, StoreType, filter, cache)
       IN SetWorld(r.w) /\ CStoreCalled("getCollectionSubject", filter, r.ret)
    /\ UNCHANGED CStoreFrame

CStore_refreshCollections(filter) ==
    /\ Len(log) < MaxCollectionStoreCalls
    /\ SetWorld(CollectionStore_refreshCollections(World, StoreType, filter))
    /\ CStoreCalled("refreshCollections", filter, 0)
    /\ UNCHANGED CStoreFrame

CStore_unregister(filter) ==
    /\ Len(log) < MaxCollectionStoreCalls
    /\ SetWorld(CollectionStore_unregister(World, StoreType, filter))
    /\ CStoreCalled("unregister", filter, 0)
    /\ UNCHANGED CStoreFrame

InitCollectionStore ==
    /\ configuration = [retryTimeout |-> 2, maxRetry |-> 1, useDiff |-> FALSE,
                        map |-> [type \in Types |-> [cached |-> FALSE]]]
    /\ retryTimeout = OrDefault(configuration.retryTimeout, DefaultRetryTimeout)
    /\ maxRetry = OrDefault(configuration.maxRetry, DefaultMaxRetry)
    /\ entities = <<>>
    /\ entitySubjects = <<>>
    /\ collectionSubjects = <<>>
    /\ entitiesLiveStore = EmptyMap
    /\ collectionsLiveStore = [type \in {StoreType} |-> NewCollectionStore]
    /\ ops = <<>>
    /\ sets = 0
    /\ storeCalls = <<>>
    /\ StandaloneInit

NextCollectionStore ==
    \/ \E data \in StoreCollections, filter \in StoreFilters : CStore_registerCollection(data, filter)
    \/ \E filter \in StoreFilters : CStore_isInStore(filter)
    \/ \E filter \in StoreFilters, cache \in BOOLEAN : CStore_getCollectionSubject(filter, cache)
    \/ \E filter \in StoreFilters : CStore_refreshCollections(filter)
    \/ \E filter \in StoreFilters : CStore_unregister(filter)

SpecCollectionStore == InitCollectionStore /\ [][NextCollectionStore]_vars

\* the fingerprints under which a filter with the content of f2 was registered
RegisteredAs(store, f2) ==
    {hash \in DOMAIN store.collections :
        hash \in DOMAIN store.filters /\ SameContent(store.filters[hash], f2)}

\* C22: once a collection c is registered under f1, a call made with any f2 of
\* the same key/value pairs (whatever the key order) reaches that entry:
\* isInStore(f2) is true, getCollectionSubject(f2) returns the stream of f1,
\* refreshCollections(f2) pushes c on it, unregister(f2) removes the entry.
C22_StoreKeysByContent ==
    [][Len(log') = Len(log) + 1 =>
        LET call == Last(log')
            store == collectionsLiveStore[StoreType]
            after == collectionsLiveStore'[StoreType]
        IN \A hash \in RegisteredAs(store, call.filter) :
            /\ call.op = "isInStore" => call.ret = 1
            /\ call.op = "getCollectionSubject" =>
                    /\ call.ret = store.collectionObservables[hash]
                    /\ collectionSubjects' = collectionSubjects
            /\ call.op = "refreshCollections" =>
                    collectionSubjects'[store.collectionObservables[hash]] =
                        SubjectNext(collectionSubjects[store.collectionObservables[hash]],
                                    store.collections[hash])
            /\ call.op = "unregister" =>
                    /\ hash \notin DOMAIN after.collections
                    /\ hash \notin DOMAIN after.collectionObservables
                    /\ hash \notin DOMAIN after.filters]_vars

\* a collection registered under {status, lang} was refreshed and then
\* unregistered through {lang, status}
C22_Witness ==
    /\ Len(log) = 3
    /\ log[1].op = "registerCollection" /\ log[2].op = "refreshCollections"
    /\ log[3].op = "unregister"
    /\ FilterKeys(log[1].filter) = FilterKeyUniverse
    /\ log[2].filter # log[1].filter /\ SameContent(log[1].filter, log[2].filter)
    /\ log[3].filter = log[2].filter
    /\ collectionSubjects[log[1].ret].hist # <<>>
    /\ DOMAIN collectionsLiveStore[StoreType].collections = {}

\* ------------------------------------------- overlapping loads and saves
EmptyWorld ==
    [entities |-> <<>>, entitySubjects |-> <<>>, collectionSubjects |-> <<>>,
     entitiesLiveStore |-> EmptyMap, collectionsLiveStore |-> EmptyMap]

\* the stores after a loadCollection(type, filter) answered with data
LoadedCollection(w, type, filter, data) ==
    LET r == DataConnector_getCollectionObservable(w, type, filter, FALSE)
        c == DataCollection_new(r.w.entities, type, data, <<>>)
    IN DataConnector_registerCollection([r.w EXCEPT !.entities = c.entities],
                                        type, filter, c.refs, FALSE)

OverlapIds == Ids \cup {0}
OverlapResponses(filter) == CollectionResponses(filter) \cup {<<Record(0, "open")>>}

\* a connector that has loaded the collections of both filters of an endpoint
InitOverlap ==
    /\ configuration \in [retryTimeout : RetryTimeouts, maxRetry : MaxRetries,
                          useDiff : BOOLEAN,
                          map : [Types -> [cached : BOOLEAN]]]
    /\ retryTimeout = OrDefault(configuration.retryTimeout, DefaultRetryTimeout)
    /\ maxRetry = OrDefault(configuration.maxRetry, DefaultMaxRetry)
    /\ \E all \in OverlapResponses(<<>>), open \in OverlapResponses(OpenFilter) :
          LET w == LoadedCollection(LoadedCollection(EmptyWorld, StoreType, <<>>, all),
                                    StoreType, OpenFilter, open)
          IN /\ entities = w.entities
             /\ entitySubjects = w.entitySubjects
             /\ collectionSubjects = w.collectionSubjects
             /\ entitiesLiveStore = w.entitiesLiveStore
             /\ collectionsLiveStore = w.collectionsLiveStore
    /\ ops = <<>>
    /\ sets = 0
    /\ storeCalls = <<>>
    /\ StandaloneInit

NextOverlap ==
    \/ \E type \in Types, id \in OverlapIds : loadEntity(type, id)
    \/ \E i \in DOMAIN ops, attributes \in AttributeSets : loadEntity_checkResponse(i, attributes)
    \/ \E ref \in DOMAIN entities : saveEntity(ref)
    \/ \E i \in DOMAIN ops : saveEntity_checkResponse(i)
    \/ \E ref \in DOMAIN entities, key \in Keys, value \in Vals : set(ref, key, value)

SpecOverlap == InitOverlap /\ [][NextOverlap]_vars

\* a load or save whose answer came from the transport
Answered(op) ==
    op.kind \in {"loadEntity", "saveEntity"} /\ op.st = "succeeded" /\ op.calls >= 1

\* the members a stored collection holds for an id
MembersWithId(heap, members, id) == {m \in DOMAIN members : heap[members[m]].id = id}

\* the response of a is processed after the response of another load or save
\* on the same (type, id)
C23_SecondResponse(a) ==
    /\ ops[a].st = "pending" /\ Answered(ops'[a])
    /\ \E b \in DOMAIN ops : /\ b # a /\ Answered(ops[b])
                             /\ ops[b].type = ops[a].type /\ ops[b].id = ops[a].id

\* the entity registered by a is the value replayed for the id and the one
\* member held for the id in every stored collection whose filter it matches
C23_Wins(a) ==
    LET type == ops[a].type
        id == ops[a].id
        last == ops'[a].reg
        index == entitiesLiveStore'[type].entitiesObservables
        store == collectionsLiveStore'[type]
    IN /\ id \in DOMAIN index
       /\ Last(entitySubjects'[index[id]].hist) = last
       /\ \A hash \in DOMAIN store.collections :
             entityMatchFilter(entities'[last].attributes, store.filters[hash])
             => \E m \in DOMAIN store.collections[hash] :
                   /\ store.collections[hash][m] = last
                   /\ MembersWithId(entities', store.collections[hash], id) = {m}

\* C23 as stated: when the response of a load or save on (type, id) is
\* processed after the response of another load or save on the same (type, id),
\* the entity of this later response is the value replayed by the entity store
\* for the id and the member held for the id in every matching collection,
\* whichever request was issued first; for every id.
C23_LastResponseWins_Stated ==
    [][\A a \in DOMAIN ops : C23_SecondResponse(a) => C23_Wins(a)]_vars

\* C23: the same, for every id other than 0.
C23_LastResponseWins ==
    [][\A a \in DOMAIN ops : (C23_SecondResponse(a) /\ ops[a].id # 0) => C23_Wins(a)]_vars

\* the request issued first was answered last: its entity is newer than the
\* one registered by the second request, and a collection held the id before
C23_Witness ==
    /\ Len(ops) = 2
    /\ Answered(ops[1]) /\ Answered(ops[2])
    /\ ops[1].id = ops[2].id /\ ops[1].id # 0 /\ ops[1].kind = "saveEntity"
    /\ ops[1].reg > ops[2].reg
    /\ \E hash \in DOMAIN collectionsLiveStore[StoreType].collections :
          Contains(collectionsLiveStore[StoreType].collections[hash], ops[1].reg)

\* ---------------------------------------------------------- late subscribers
MaxSubscriptions == 1

\* what a ReplaySubject(1) hands to a new subscriber: the last value, if any
EntityReplay(subject) ==
    IF subject.hist = <<>> THEN <<>> ELSE <<Last(subject.hist)>>

\* what a collection stream hands to a new subscriber: a Subject nothing, a
\* ReplaySubject built without a buffer size everything it has emitted
CollectionReplay(subject) ==
    IF subject.replay THEN subject.hist ELSE <<>>

Subscriptions == {k \in DOMAIN log : log[k].op = "subscribe"}

Subscribed(stream, s, subject, replaying, received) ==
    log' = Append(log, [op |-> "subscribe", stream |-> stream, subject |-> s,
                        buffered |-> subject.hist, replaying |-> replaying,
                        received |-> received])

\* subscribe() on an entity stream of the entity store
subscribeEntity(s) ==
    /\ Cardinality(Subscriptions) < MaxSubscriptions
    /\ Subscribed("entity", s, entitySubjects[s], TRUE, EntityReplay(entitySubjects[s]))
    /\ UNCHANGED <<CStoreFrame, entities, entitySubjects, collectionSubjects,
                   entitiesLiveStore, collectionsLiveStore>>

\* subscribe() on a collection stream of the collection store
subscribeCollection(s) ==
    /\ Cardinality(Subscriptions) < MaxSubscriptions
    /\ Subscribed("collection", s, collectionSubjects[s], collectionSubjects[s].replay,
                  CollectionReplay(collectionSubjects[s]))
    /\ UNCHANGED <<CStoreFrame, entities, entitySubjects, collectionSubjects,
                   entitiesLiveStore, collectionsLiveStore>>

\* both stores of an endpoint, after the stream of the empty filter was
\* requested from the collection store with or without the cache flag
InitReplay ==
    /\ configuration = [retryTimeout |-> 2, maxRetry |-> 1, useDiff |-> FALSE,
                        map |-> [type \in Types |-> [cached |-> FALSE]]]
    /\ retryTimeout = OrDefault(configuration.retryTimeout, DefaultRetryTimeout)
    /\ maxRetry = OrDefault(configuration.maxRetry, DefaultMaxRetry)
    /\ \E cache \in BOOLEAN :
          LET w == CollectionStore_getCollectionSubject(
                       [EmptyWorld EXCEPT
                           !.entitiesLiveStore = [type \in {StoreType} |-> NewEntityStore],
                           !.collectionsLiveStore = [type \in {StoreType} |-> NewCollectionStore]],
                       StoreType, <<>>, cache).w
          IN /\ entities = w.entities
             /\ entitySubjects = w.entitySubjects
             /\ collectionSubjects = w.collectionSubjects
             /\ entitiesLiveStore = w.entitiesLiveStore
             /\ collectionsLiveStore = w.collectionsLiveStore
    /\ ops = <<>>
    /\ sets = 0
    /\ storeCalls = <<>>
    /\ StandaloneInit

NextReplay ==
    \/ \E id \in Ids : Store_registerEntity(id)
    \/ \E data \in StoreCollections, filter \in Filters : CStore_registerCollection(data, filter)
    \/ \E filter \in Filters : CStore_refreshCollections(filter)
    \/ \E s \in DOMAIN entitySubjects : subscribeEntity(s)
    \/ \E s \in DOMAIN collectionSubjects : subscribeCollection(s)

SpecReplay == InitReplay /\ [][NextReplay]_vars

\* C24: a subscriber that arrives on a replay-buffered stream which has already
\* emitted (an entity stream, or a collection stream created with the cache
\* flag) receives at once exactly one value, the most recently emitted one, and
\* none of the older ones.
C24_LateSubscriberGetsLatestOnly ==
    \A k \in Subscriptions :
        (log[k].replaying /\ log[k].buffered # <<>>)
        => log[k].received = <<Last(log[k].buffered)>>

\* ------------------------------------------------------ Http authentication
\* time is counted in hours: the 3600 seconds the code subtracts are one unit
MaxNow == 4
MaxHttpCalls == 3
Hour == 1
LoginExpiries == {1, 3}
HttpStatuses == {200, 401}

HttpFrame == <<configuration, maxRetry, retryTimeout, entities, entitySubjects,
               collectionSubjects, entitiesLiveStore, collectionsLiveStore, ops, sets,
               storeCalls, collection, localStorage, pushListeners, listenerSubjects,
               nodejs>>

HttpCalled(op, expired, outcome) ==
    log' = Append(log, [op |-> op, expired |-> expired, outcome |-> outcome])

\* setToken: stores the token, sets the header and asks for users/me
setToken(h, accessToken) ==
    [h EXCEPT !.storage.accessToken = accessToken, !.accessTokenHeader = accessToken,
              !.getMe = @ + 1]

setExpireDate(h, expire) == [h EXCEPT !.storage.expires_in = h.now + expire]

setRefreshToken(h, refreshToken) == [h EXCEPT !.storage.refreshToken = refreshToken]

\* refreshToken: sends the refresh request
refreshToken(h) ==
    [h EXCEPT !.refreshPending = @ + 1, !.refreshRequests = @ + 1]

\* logout: the four stored items, the header and the user are removed
Http_logoutBody(h) ==
    [h EXCEPT !.storage = NewHttp.storage, !.accessTokenHeader = NoValue, !.user = NoValue]

\* authenticate, with the answer of the login request
Http_authenticate(status, expires_in) ==
    /\ Len(log) < MaxHttpCalls
    /\ LET expire == expires_in - Hour
           stored == setRefreshToken(setExpireDate(setToken(http, "token"), expire), "refresh")
       IN http' = IF status # 200 THEN http
                  ELSE IF expire < Hour
                  THEN refreshToken(IF http.storage.accessToken # NoValue THEN stored ELSE http)
                  ELSE stored
    /\ HttpCalled("authenticate", FALSE, status)
    /\ UNCHANGED HttpFrame

\* onreadystatechange of the refresh request
Http_refreshToken_response(status, expires_in) ==
    /\ http.refreshPending > 0
    /\ LET h == [http EXCEPT !.refreshPending = @ - 1]
       IN http' = IF status = 200
                  THEN setRefreshToken(setExpireDate(setToken(h, "token"), expires_in - Hour),
                                       "refresh")
                  ELSE h
    /\ UNCHANGED <<HttpFrame, log>>

\* onreadystatechange of users/me: setMe on 200
Http_getMe_response(status) ==
    /\ http.getMe > 0
    /\ http' = IF status = 200
               THEN [http EXCEPT !.getMe = @ - 1, !.user = "user", !.storage.currentUser = "user"]
               ELSE [http EXCEPT !.getMe = @ - 1]
    /\ UNCHANGED <<HttpFrame, log>>

\* the authenticated getter
Http_authenticated ==
    /\ Len(log) < MaxHttpCalls
    /\ LET expire == http.storage.expires_in
           h == [http EXCEPT !.user = http.storage.currentUser]
       IN IF expire > http.now
          THEN IF http.storage.accessToken # NoValue
               THEN /\ http' = setToken(h, http.storage.accessToken)
                    /\ HttpCalled("authenticated", FALSE, "getMe")
               ELSE /\ http' = h
                    /\ HttpCalled("authenticated", FALSE, "TypeError")
          ELSE IF expire # 0 /\ expire < http.now
          THEN /\ http' = Http_logoutBody(h)
               /\ HttpCalled("authenticated", TRUE, "Token expired")
          ELSE /\ http' = h
               /\ HttpCalled("authenticated", FALSE, "Not authenticated")
    /\ UNCHANGED HttpFrame

Http_logout ==
    /\ Len(log) < MaxHttpCalls
    /\ http' = Http_logoutBody(http)
    /\ HttpCalled("logout", FALSE, "true")
    /\ UNCHANGED HttpFrame

\* Date.now() advances
Tick ==
    /\ http.now < MaxNow
    /\ http' = [http EXCEPT !.now = @ + 1]
    /\ UNCHANGED <<HttpFrame, log>>

NextHttp ==
    \/ \E status \in HttpStatuses, expires_in \in LoginExpiries : Http_authenticate(status, expires_in)
    \/ \E status \in HttpStatuses, expires_in \in LoginExpiries :
            Http_refreshToken_response(status, expires_in)
    \/ \E status \in HttpStatuses : Http_getMe_response(status)
    \/ Http_authenticated
    \/ Http_logout
    \/ Tick

SpecHttp == InitPaginated /\ [][NextHttp]_vars

\* C25: an 'authenticated' check made after the stored expiry has passed first
\* sends a refresh request with the stored refresh credential, and leaves the
\* stored credentials in place until that refresh has failed.
C25_ExpiredCheckRefreshesFirst ==
    [][(Len(log') = Len(log) + 1 /\ Last(log').op = "authenticated" /\ Last(log').expired)
       => /\ http'.refreshRequests = http.refreshRequests + 1
          /\ http'.storage = http.storage]_vars

\* ------------------------------------------------------ globalMessageSubject
\* The diagnostic stream is not a variable of its own: what an operation has
\* published on it follows from its record. checkResponse() is called right
\* after every transport call and starts with sendMessage(): one null per call
\* issued. Every errorHandler invocation starts with sendMessage(error).
NullMessages(op) == op.calls

ErrorMessages(op) == op.fails + (IF op.st = "failed" /\ op.code > 0 THEN 1 ELSE 0)

\* attempts of the operation that were answered with data
SucceededAttempts(op) == IF op.st = "succeeded" /\ op.calls >= 1 THEN 1 ELSE 0

\* C26: once every transport attempt of an operation has been answered, the
\* diagnostic stream has received one message per attempt: a null for each
\* attempt that succeeded and for no other, the error for each attempt that
\* failed.
C26_OneMessagePerAttempt ==
    \A i \in DOMAIN ops :
        (ops[i].st \in {"succeeded", "failed"} /\ ops[i].calls >= 1)
        => /\ NullMessages(ops[i]) = SucceededAttempts(ops[i])
           /\ ErrorMessages(ops[i]) = ops[i].calls - SucceededAttempts(ops[i])

\* ------------------------------------------- saveEntity, dispatchBeforeResponse
\* connector.saveEntity(entity, false, true): the entity is registered in the
\* stores before the transport call
saveEntity_dispatchBeforeResponse(ref) ==
    /\ Len(ops) < MaxOps
    /\ ref \in DOMAIN entities /\ entities[ref].id # TempId
    /\ LET entity == entities[ref]
           s == Len(entitySubjects) + 1
           op == [NewOp("saveEntity", entity.type) EXCEPT
                      !.id = entity.id, !.ent = ref, !.subj = s, !.data = entity.attributes]
           w1 == [World EXCEPT !.entitySubjects = Append(@, NewReplaySubject)]
           r == DataConnector_registerEntity(w1, entity.type, entity.id, ref)
       IN IF ~configuration.useDiff \/ getDiff(entity) # {}
          THEN /\ SetWorld(r.w)
               /\ ops' = Append(ops, [op EXCEPT !.calls = 1])
          ELSE /\ SetWorld(generateReferenceObject(
                       [r.w EXCEPT !.entitySubjects[s] = SubjectNext(@, ref)], ref))
               /\ ops' = Append(ops, [op EXCEPT !.st = "succeeded", !.reg = ref])
    /\ UNCHANGED <<Config, sets>>

NextDispatch ==
    \/ \E ref \in DOMAIN entities : saveEntity_dispatchBeforeResponse(ref)
    \/ \E i \in DOMAIN ops : saveEntity_checkResponse(i)
    \/ \E ref \in DOMAIN entities, key \in Keys, value \in Vals : set(ref, key, value)

SpecDispatch == InitOverlap /\ [][NextDispatch]_vars

\* this step issues the transport call of a save
C27_Issued ==
    /\ Len(ops') = Len(ops) + 1
    /\ Last(ops').kind = "saveEntity" /\ Last(ops').calls = 1

\* the unsaved entity is the latest value of the entity-store stream of its id
\* and was pushed, in this step, on the stream of every stored collection whose
\* filter it matches
C27_OptimisticPushed ==
    LET op == Last(ops')
        index == entitiesLiveStore'[op.type].entitiesObservables
        store == collectionsLiveStore'[op.type]
    IN /\ op.id \in DOMAIN index
       /\ Last(entitySubjects'[index[op.id]].hist) = op.ent
       /\ \A hash \in DOMAIN store.collections :
             entityMatchFilter(entities[op.ent].attributes, store.filters[hash])
             => LET s == store.collectionObservables[hash] IN
                /\ Contains(store.collections[hash], op.ent)
                /\ collectionSubjects'[s].hist
                       = Append(collectionSubjects[s].hist, store.collections[hash])

\* this step processes the response to the save a
C27_Response(a) ==
    /\ ops[a].kind = "saveEntity" /\ ops[a].st = "pending" /\ ops'[a].st = "succeeded"

\* the confirmed entity is the value replayed for the id, pushed after the
\* unsaved one, and the one member held for the id in every stored collection
\* whose filter it matches, pushed there after the unsaved one too
C27_Confirmed(a) ==
    LET type == ops[a].type
        id == ops[a].id
        confirmed == ops'[a].reg
        index == entitiesLiveStore'[type].entitiesObservables
        store == collectionsLiveStore'[type]
    IN /\ id \in DOMAIN index
       /\ LET hist == entitySubjects'[index[id]].hist IN
          /\ Last(hist) = confirmed
          /\ \E p \in 1..(Len(hist) - 1) : hist[p] = ops[a].ent
       /\ \A hash \in DOMAIN store.collections :
             entityMatchFilter(entities'[confirmed].attributes, store.filters[hash])
             => /\ \E m \in DOMAIN store.collections[hash] :
                      /\ store.collections[hash][m] = confirmed
                      /\ MembersWithId(entities', store.collections[hash], id) = {m}
                /\ Last(collectionSubjects'[store.collectionObservables[hash]].hist)
                       = store.collections[hash]

\* C27 as stated: a save with dispatchBeforeResponse pushes the unsaved entity
\* on the entity-store stream of its id and on every matching collection
\* stream when it issues the transport call; once the response is processed the
\* value replayed for the id and the member held in each matching collection
\* is the confirmed entity, pushed after the unsaved one; for every id.
C27_OptimisticThenConfirmed_Stated ==
    [][/\ C27_Issued => C27_OptimisticPushed
       /\ \A a \in DOMAIN ops : C27_Response(a) => C27_Confirmed(a)]_vars

\* C27: the same, for every id other than 0.
C27_OptimisticThenConfirmed ==
    [][/\ (C27_Issued /\ Last(ops').id # 0) => C27_OptimisticPushed
       /\ \A a \in DOMAIN ops : (C27_Response(a) /\ ops[a].id # 0) => C27_Confirmed(a)]_vars

\* a save of an entity held by a stored collection was answered: the stream of
\* the id carries the unsaved entity, then the confirmed one
C27_Witness ==
    \E a \in DOMAIN ops :
        /\ ops[a].kind = "saveEntity" /\ ops[a].st = "succeeded" /\ ops[a].calls = 1
        /\ ops[a].id # 0 /\ ops[a].reg # ops[a].ent
        /\ \E hash \in DOMAIN collectionsLiveStore[StoreType].collections :
              Contains(collectionsLiveStore[StoreType].collections[hash], ops[a].reg)

\* ------------------------------------------------------------------ exclusions
MaxPayloadCalls == 2
PayloadKeys == {"status", "token"}

\* JavaScript values a field may hold, written as their literals
JsValues == {"0", "false", "''", "null", "1", "'draft'"}

\* the values `if (value)` takes for false
Falsy == {"0", "false", "''", "null"}

\* data sets: objects over some of the keys
Payloads == UNION {[keys -> JsValues] : keys \in SUBSET PayloadKeys}

\* exclusions.forEach(key => { if (data[key]) delete data[key]; })
stripExclusions(data, exclusions) ==
    [key \in {k \in DOMAIN data : ~(k \in exclusions /\ data[k] \notin Falsy)} |-> data[key]]

PayloadFrame == <<StorageFrame, localStorage>>

\* the call handed to the transport: its data set, the endpoint's exclusions and
\* the retry count of the operation
TransportCalled(op, exclusions, payload, count) ==
    log' = Append(log, [op |-> op, exclusions |-> exclusions, payload |-> payload,
                        count |-> count])

\* saveEntity up to its first transport call; dataToSave is the clone or the
\* diff of the entity
Payload_saveEntity(dataToSave, exclusions) ==
    /\ Len(log) < MaxPayloadCalls
    /\ TransportCalled("saveEntity", exclusions, stripExclusions(dataToSave, exclusions), 0)
    /\ UNCHANGED PayloadFrame

\* createEntity (endpoint without a structure) up to its first transport call
Payload_createEntity(data, exclusions) ==
    /\ Len(log) < MaxPayloadCalls
    /\ TransportCalled("createEntity", exclusions, stripExclusions(data, exclusions), 0)
    /\ UNCHANGED PayloadFrame

\* a retry hands the same data set to the transport again
Payload_retry ==
    /\ log # <<>> /\ Len(log) < MaxPayloadCalls
    /\ TransportCalled(Last(log).op, Last(log).exclusions, Last(log).payload, Last(log).count + 1)
    /\ UNCHANGED PayloadFrame

NextPayload ==
    \/ \E data \in Payloads, exclusions \in SUBSET PayloadKeys :
          Payload_saveEntity(data, exclusions)
    \/ \E data \in Payloads, exclusions \in SUBSET PayloadKeys :
          Payload_createEntity(data, exclusions)
    \/ Payload_retry

SpecPayload == InitPaginated /\ [][NextPayload]_vars

\* C28: no data set handed to the transport's saveEntity or createEntity holds
\* a key listed in the endpoint's exclusions, whatever value the key held, on
\* first attempts and on retries.
C28_NoExcludedKeySent ==
    \A c \in DOMAIN log : DOMAIN log[c].payload \cap log[c].exclusions = {}

\* ------------------------------------------------------- reload notifications
MaxNotifyOps == 2
RefreshType == "refresh"
NotifyTypes == Types \cup {RefreshType}

\* operation records of a connector with a live-refresh endpoint: the
\* sendNotification argument of createEntity, and for the create issued by
\* sendReloadNotification the operation whose response issued it and the
\* endpoint it reports (refreshData.myType)
NotifyOp(kind, type, sendNotification) ==
    NewOp(kind, type) @@ [sendNotification |-> sendNotification, cause |-> 0, myType |-> ""]

refreshEnabled(type) == configuration.map[type].refreshEnabled

\* variant: the notification is created with sendNotification left to its default
sendReloadNotification_Default(w, seq, type, data, cause) ==
    IF refreshEnabled(type)
    THEN [w |-> [w EXCEPT !.entitySubjects = Append(@, NewReplaySubject)],
          ops |-> Append(seq, [NotifyOp("createEntity", configuration.liveRefreshService, TRUE)
                                  EXCEPT !.subj = Len(w.entitySubjects) + 1, !.data = data,
                                         !.calls = 1, !.cause = cause, !.myType = type])]
    ELSE [w |-> w, ops |-> seq]

\* sendReloadNotification(type, data), called by the response of operation
\* cause: createEntity(liveRefreshService, refreshData, false) up to its
\* transport call
sendReloadNotification(w, seq, type, data, cause) ==
    IF refreshEnabled(type)
    THEN [w |-> [w EXCEPT !.entitySubjects = Append(@, NewReplaySubject)],
          ops |-> Append(seq, [NotifyOp("createEntity", configuration.liveRefreshService, FALSE)
                                  EXCEPT !.subj = Len(w.entitySubjects) + 1, !.data = data,
                                         !.calls = 1, !.cause = cause, !.myType = type])]
    ELSE [w |-> w, ops |-> seq]

\* operations issued by the caller, not by a response
CallerOps == {i \in DOMAIN ops : ops[i].cause = 0}

\* the id a backend gives to a created entity: the next one of the endpoint
RECURSIVE MaxIdOf(_, _, _)
MaxIdOf(heap, type, index) ==
    IF index > Len(heap) THEN 0
    ELSE LET rest == MaxIdOf(heap, type, index + 1)
         IN IF heap[index].type = type /\ heap[index].id > rest THEN heap[index].id ELSE rest

Notify_createEntity(type, attributes) ==
    /\ Cardinality(CallerOps) < MaxNotifyOps
    /\ SetWorld([World EXCEPT !.entitySubjects = Append(@, NewReplaySubject)])
    /\ ops' = Append(ops, [NotifyOp("createEntity", type, TRUE) EXCEPT
                              !.subj = Len(entitySubjects) + 1, !.data = attributes, !.calls = 1])
    /\ UNCHANGED <<Config, sets>>

Notify_createEntity_checkResponse(i) ==
    /\ i \in DOMAIN ops /\ ops[i].kind = "createEntity" /\ ops[i].st = "pending"
    /\ LET op == ops[i]
           id == MaxIdOf(entities, op.type, 1) + 1
           ref == Len(entities) + 1
           data == [id |-> id, attributes |-> op.data]
           w1 == EntityStore_registerEntitySubject(EnsureEntityStore(World, op.type),
                                                   op.type, id, op.subj)
           w2 == [w1 EXCEPT !.entities = Append(@, DataEntity_new(op.type, data, id))]
           r == DataConnector_registerEntity(w2, op.type, id, ref)
           done == [ops EXCEPT ![i].st = "succeeded", ![i].reg = ref, ![i].id = id]
           n == IF op.sendNotification
                THEN sendReloadNotification(r.w, done, op.type, op.data, i)
                ELSE [w |-> r.w, ops |-> done]
       IN /\ SetWorld(n.w)
          /\ ops' = n.ops
    /\ UNCHANGED <<Config, sets>>

Notify_saveEntity(ref) ==
    /\ Cardinality(CallerOps) < MaxNotifyOps
    /\ ref \in DOMAIN entities /\ entities[ref].id # TempId
    /\ LET entity == entities[ref]
           s == Len(entitySubjects) + 1
           op == [NotifyOp("saveEntity", entity.type, TRUE) EXCEPT
                      !.id = entity.id, !.ent = ref, !.subj = s, !.data = entity.attributes]
           w1 == [World EXCEPT !.entitySubjects = Append(@, NewReplaySubject)]
       IN IF ~configuration.useDiff \/ getDiff(entity) # {}
          THEN /\ SetWorld(w1)
               /\ ops' = Append(ops, [op EXCEPT !.calls = 1])
          ELSE /\ SetWorld(generateReferenceObject(
                       [w1 EXCEPT !.entitySubjects[s] = SubjectNext(@, ref)], ref))
               /\ ops' = Append(ops, [op EXCEPT !.st = "succeeded", !.reg = ref])
    /\ UNCHANGED <<Config, sets>>

Notify_saveEntity_checkResponse(i) ==
    /\ i \in DOMAIN ops /\ ops[i].kind = "saveEntity" /\ ops[i].st = "pending"
    /\ LET op == ops[i]
           ref == Len(entities) + 1
           data == [id |-> op.id, attributes |-> op.data]
           w1 == [World EXCEPT
                    !.entities = Append(@, DataEntity_new(op.type, data, entities[op.ent].id)),
                    !.entitySubjects[op.subj] = SubjectNext(@, ref)]
           r == DataConnector_registerEntity(w1, op.type, entities[op.ent].id, ref)
           done == [ops EXCEPT ![i].st = "succeeded", ![i].reg = ref]
           n == sendReloadNotification(generateReferenceObject(r.w, op.ent), done,
                                       op.type, op.data, i)
       IN /\ SetWorld(n.w)
          /\ ops' = n.ops
    /\ UNCHANGED <<Config, sets>>

Notify_deleteEntity(ref) ==
    /\ Cardinality(CallerOps) < MaxNotifyOps
    /\ ref \in DOMAIN entities
    /\ ops' = Append(ops, [NotifyOp("deleteEntity", entities[ref].type, TRUE) EXCEPT
                              !.id = entities[ref].id, !.ent = ref, !.calls = 1])
    /\ UNCHANGED <<Config, sets, entities, entitySubjects, collectionSubjects,
                   entitiesLiveStore, collectionsLiveStore>>

Notify_deleteEntity_checkResponse(i) ==
    /\ i \in DOMAIN ops /\ ops[i].kind = "deleteEntity" /\ ops[i].st = "pending"
    /\ LET op == ops[i]
           done == MarkEvicted(op.type, entities[op.ent].id,
                               [ops EXCEPT ![i].st = "succeeded", ![i].out = Append(@, "next")])
           n == sendReloadNotification(DataConnector_unregisterEntity(World, op.ent), done,
                                       op.type, entities[op.ent].attributes, i)
       IN /\ SetWorld(n.w)
          /\ ops' = n.ops
    /\ UNCHANGED <<Config, sets>>

\* a connector whose live-refresh endpoint is one of its endpoints
InitNotify ==
    /\ configuration \in [retryTimeout : RetryTimeouts, maxRetry : MaxRetries,
                          useDiff : BOOLEAN,
                          liveRefreshService : {RefreshType},
                          map : [NotifyTypes -> [cached : {FALSE}, refreshEnabled : BOOLEAN]]]
    /\ retryTimeout = OrDefault(configuration.retryTimeout, DefaultRetryTimeout)
    /\ maxRetry = OrDefault(configuration.maxRetry, DefaultMaxRetry)
    /\ entities = <<>>
    /\ entitySubjects = <<>>
    /\ collectionSubjects = <<>>
    /\ entitiesLiveStore = EmptyMap
    /\ collectionsLiveStore = EmptyMap
    /\ ops = <<>>
    /\ sets = 0
    /\ storeCalls = <<>>
    /\ StandaloneInit

NextNotify ==
    \/ \E type \in NotifyTypes, attributes \in {Record(1, "open").attributes} :
          Notify_createEntity(type, attributes)
    \/ \E i \in DOMAIN ops : Notify_createEntity_checkResponse(i)
    \/ \E ref \in DOMAIN entities : Notify_saveEntity(ref)
    \/ \E i \in DOMAIN ops : Notify_saveEntity_checkResponse(i)
    \/ \E ref \in DOMAIN entities : Notify_deleteEntity(ref)
    \/ \E i \in DOMAIN ops : Notify_deleteEntity_checkResponse(i)
    \/ \E i \in DOMAIN ops, code \in ErrorCodes : errorHandler(i, code)
    \/ \E i \in DOMAIN ops : retry(i)
    \/ \E ref \in DOMAIN entities, key \in Keys, value \in Vals : set(ref, key, value)

SpecNotify == InitNotify /\ [][NextNotify]_vars

\* the creates issued on the live-refresh endpoint by the response of i
NotificationsOf(i) == {j \in DOMAIN ops : ops[j].cause = i}

\* a save, create or delete of the caller whose transport call was answered
\* with a result
SucceededMutation(i) ==
    /\ ops[i].cause = 0 /\ ops[i].calls >= 1 /\ ops[i].st = "succeeded"
    /\ ops[i].kind \in {"saveEntity", "createEntity", "deleteEntity"}

\* C29: a succeeded save, create or delete on an endpoint with refreshEnabled
\* has issued exactly one create on the live-refresh endpoint; the create of a
\* notification issues no notification, whether the live-refresh endpoint is
\* refreshEnabled or not; an operation on an endpoint without the flag, or one
\* that has not succeeded, has issued none.
C29_OneNotificationPerMutation ==
    \A i \in DOMAIN ops :
        /\ (SucceededMutation(i) /\ refreshEnabled(ops[i].type))
           => /\ Cardinality(NotificationsOf(i)) = 1
              /\ \A j \in NotificationsOf(i) :
                    /\ ops[j].kind = "createEntity" /\ ops[j].calls >= 1
                    /\ ops[j].type = configuration.liveRefreshService
                    /\ ops[j].myType = ops[i].type
        /\ ops[i].cause # 0 => NotificationsOf(i) = {}
        /\ ~(SucceededMutation(i) /\ refreshEnabled(ops[i].type)) => NotificationsOf(i) = {}

\* a create on the live-refresh endpoint, itself refreshEnabled, succeeded; its
\* notification succeeded too and went no further
C29_Witness ==
    \E i \in DOMAIN ops, j \in DOMAIN ops :
        /\ SucceededMutation(i) /\ ops[i].type = RefreshType /\ refreshEnabled(RefreshType)
        /\ ops[j].cause = i /\ ops[j].st = "succeeded"
        /\ NotificationsOf(j) = {}

\* ------------------------------------------------ registration of a collection
\* this step processes the response to the loadCollection i
C30_Registered(i) ==
    /\ ops[i].kind = "loadCollection"
    /\ ops[i].st = "pending" /\ ops'[i].st = "succeeded"

\* streams that existed in w keep their emissions in v; streams new in v have
\* emitted nothing
NothingEmitted(w, v) ==
    /\ Len(v.collectionSubjects) >= Len(w.collectionSubjects)
    /\ \A s \in DOMAIN v.collectionSubjects :
          v.collectionSubjects[s].hist
              = IF s \in DOMAIN w.collectionSubjects THEN w.collectionSubjects[s].hist ELSE <<>>

\* C30: when the response of a loadCollection for filter F is registered, no
\* collection stream emits while the entities of the response are registered
\* one after the other, nor when CollectionStore.registerCollection stores the
\* collection; F's stream then emits once, the stored collection with all its
\* entities, each of them the latest value of the entity store for its id; no
\* other collection stream emits.
C30_OneEmissionWhenComplete ==
    [][\A i \in DOMAIN ops : C30_Registered(i) =>
          LET type == ops[i].type
              filter == ops[i].filter
              hash == ObjectHash(filter)
              store == collectionsLiveStore'[type]
              refs == store.collections[hash]
              built == [World EXCEPT !.entities = entities']
              partial(k) == registerCollectionEntities(built, type, SubSeq(refs, 1, k))
              stored == CollectionStore_registerCollection(partial(Len(refs)),
                                                           type, refs, filter).w
              s == store.collectionObservables[hash]
              index == entitiesLiveStore'[type].entitiesObservables
          IN /\ \A k \in 0..Len(refs) : NothingEmitted(World, partial(k))
             /\ NothingEmitted(partial(Len(refs)), stored)
             /\ \A m \in DOMAIN refs :
                   /\ entities'[refs[m]].id \in DOMAIN index
                   /\ Last(entitySubjects'[index[entities'[refs[m]].id]].hist) = refs[m]
             /\ collectionSubjects'[s].hist = Append(stored.collectionSubjects[s].hist, refs)
             /\ \A t \in DOMAIN collectionSubjects' :
                   t # s => collectionSubjects'[t].hist = stored.collectionSubjects[t].hist]_vars

\* a response of two entities was registered for a filter while another
\* stored collection held entities of the same ids
C30_Witness ==
    \E i \in DOMAIN ops :
        /\ ops[i].kind = "loadCollection" /\ ops[i].st = "succeeded"
        /\ LET store == collectionsLiveStore[ops[i].type]
               hash == ObjectHash(ops[i].filter)
           IN /\ hash \in DOMAIN store.collections
              /\ Len(store.collections[hash]) = 2
              /\ Last(collectionSubjects[store.collectionObservables[hash]].hist)
                     = store.collections[hash]
              /\ \E other \in DOMAIN store.collections :
                    other # hash /\ store.collections[other] # <<>>

\* ------------------------------------------------------------ entityMatchFilter
MaxMatchCalls == 2
MatchKeys == {"status", "id"}
MatchValues(key) == IF key = "id" THEN {"1", "2"} ELSE Vals

\* data sets handed to the DataEntity constructor: objects over some of the keys
MatchData == UNION {{d \in [keys -> {"1", "2"} \cup Vals] :
                        \A key \in keys : d[key] \in MatchValues(key)} :
                    keys \in SUBSET MatchKeys}

MatchFilters ==
    {<<>>}
    \cup {<<(<<key, value>>)>> : <<key, value>> \in
              {kv \in MatchKeys \X ({"1", "2"} \cup Vals) : kv[2] \in MatchValues(kv[1])}}
    \cup {<<(<<"status", s>>), (<<"id", i>>)>> : <<s, i>> \in Vals \X {"1", "2"}}

\* the constructor copies every own key of data but id
DataEntity_attributes(data) == [key \in DOMAIN data \ {"id"} |-> data[key]]

\* attributes[key] of a JavaScript object: undefined for a key it does not own
Read(attributes, key) == IF key \in DOMAIN attributes THEN attributes[key] ELSE Undefined

\* one entity at a time: built, possibly modified with set, then matched
Match_new(data) ==
    /\ Len(log) < MaxMatchCalls
    /\ IF log = <<>> THEN TRUE ELSE Last(log).called
    /\ log' = Append(log, [attributes |-> DataEntity_attributes(data), modified |-> FALSE,
                           filter |-> <<>>, ret |-> TRUE, called |-> FALSE])
    /\ UNCHANGED PayloadFrame

\* entity.set(key, value): this.attributes[key] = value
Match_set(key, value) ==
    /\ log # <<>> /\ ~Last(log).called /\ ~Last(log).modified
    /\ log' = [log EXCEPT ![Len(log)].attributes = MapPut(@, key, value),
                          ![Len(log)].modified = TRUE]
    /\ UNCHANGED PayloadFrame

Match_entityMatchFilter(filter) ==
    /\ log # <<>> /\ ~Last(log).called
    /\ LET attributes == Last(log).attributes
           read == [key \in FilterKeys(filter) |-> Read(attributes, key)]
       IN log' = [log EXCEPT ![Len(log)].filter = filter,
                             ![Len(log)].ret = entityMatchFilter(read, filter),
                             ![Len(log)].called = TRUE]
    /\ UNCHANGED PayloadFrame

NextMatch ==
    \/ \E data \in MatchData : Match_new(data)
    \/ \E key \in MatchKeys, value \in {"1", "2", Undefined} \cup Vals :
          (value = Undefined \/ value \in MatchValues(key)) /\ Match_set(key, value)
    \/ \E filter \in MatchFilters : Match_entityMatchFilter(filter)

SpecMatch == InitPaginated /\ [][NextMatch]_vars

\* C31 as stated: entityMatchFilter is true exactly when every key of the
\* filter that the attributes own has a strictly equal value there; a filter on
\* the key id alone matches every entity.
C31_MatchIffOwnedKeysEqual_Stated ==
    \A c \in DOMAIN log : log[c].called =>
        /\ log[c].ret = (\A key \in FilterKeys(log[c].filter) \cap DOMAIN log[c].attributes :
                            FilterValue(log[c].filter, key) = log[c].attributes[key])
        /\ FilterKeys(log[c].filter) = {"id"} => log[c].ret

\* C31: entityMatchFilter is true exactly when every key of the filter whose
\* value in the attributes is not undefined has a strictly equal value there:
\* a key the attributes do not own, or own with the value undefined, never
\* blocks a match; the empty filter matches every entity; a filter on the key
\* id alone matches every entity whose attributes are those the constructor
\* built.
C31_MatchIffDefinedKeysEqual ==
    \A c \in DOMAIN log : log[c].called =>
        /\ log[c].ret = (\A key \in FilterKeys(log[c].filter) :
                            Read(log[c].attributes, key) # Undefined
                            => FilterValue(log[c].filter, key) = log[c].attributes[key])
        /\ log[c].filter = <<>> => log[c].ret
        /\ (FilterKeys(log[c].filter) = {"id"} /\ ~log[c].modified) => log[c].ret

\* an entity built from data that carries an id was matched against a filter
\* on another id, and an entity owning a status against a filter on another
\* status
C31_Witness ==
    /\ Len(log) = 2
    /\ log[1].called /\ log[2].called
    /\ ~log[1].modified /\ FilterKeys(log[1].filter) = {"id"} /\ log[1].ret
    /\ "status" \in DOMAIN log[2].attributes /\ ~log[2].ret

\* ------------------------------------------------ membership and emissions
\* the members of the collection stored under hash for type changed in this step
MembershipChanged(type, hash) ==
    /\ type \in DOMAIN collectionsLiveStore /\ type \in DOMAIN collectionsLiveStore'
    /\ hash \in DOMAIN collectionsLiveStore[type].collections
    /\ hash \in DOMAIN collectionsLiveStore'[type].collections
    /\ collectionsLiveStore'[type].collections[hash] # collectionsLiveStore[type].collections[hash]

\* C32: in every step of the connector that inserts, replaces or removes a
\* member of a stored collection, the stream of that collection emits, and its
\* latest emission is the collection as it is stored after the step.
C32_MembershipChangeEmits ==
    [][\A type \in Types :
          \A hash \in {ObjectHash(filter) : filter \in Filters} :
              MembershipChanged(type, hash) =>
                  LET store == collectionsLiveStore'[type]
                      s == store.collectionObservables[hash]
                  IN /\ Len(collectionSubjects'[s].hist) > HistLen(collectionSubjects, s)
                     /\ Last(collectionSubjects'[s].hist) = store.collections[hash]]_vars

\* ---------------------------------------------------------------- refreshEntity
MaxRefreshCalls == 2

\* refreshEntity(type, id): loadEntity(type, id) when the id is in the entity
\* store, nothing otherwise. The log keeps, for each call, the stream the
\* store indexed for the id before the call (the one subscribers hold) and the
\* operation the call started (0: none)
refreshEntity(type, id) ==
    /\ Len(log) < MaxRefreshCalls
    /\ LET inStore == /\ type \in DOMAIN entitiesLiveStore
                      /\ EntityStore_isInStore(entitiesLiveStore[type], id)
           held == IF inStore THEN entitiesLiveStore[type].entitiesObservables[id] ELSE 0
           op == [NewOp("loadEntity", type) EXCEPT !.id = id, !.hit = inStore]
           cachedObs == getEntityObservableInStore(World, type, id)
       IN /\ IF ~inStore
             THEN UNCHANGED <<entities, entitySubjects, collectionSubjects,
                              entitiesLiveStore, collectionsLiveStore, ops>>
             ELSE IF useCache(type) /\ cachedObs.ret # 0
             THEN /\ SetWorld(cachedObs.w)
                  /\ ops' = Append(ops, [op EXCEPT !.subj = cachedObs.ret, !.st = "store"])
             ELSE LET r == DataConnector_getEntitySubject(World, type, id, TRUE)
                  IN /\ SetWorld(r.w)
                     /\ ops' = Append(ops, [op EXCEPT !.subj = r.ret, !.calls = 1])
          /\ log' = Append(log, [op |-> "refreshEntity", type |-> type, id |-> id,
                                 held |-> held,
                                 started |-> IF inStore THEN Len(ops) + 1 ELSE 0])
    /\ UNCHANGED <<configuration, maxRetry, retryTimeout, storeCalls, collection,
                   localStorage, pushListeners, listenerSubjects, http, nodejs, sets>>

NextRefresh ==
    \/ \E type \in Types, id \in OverlapIds : refreshEntity(type, id)
    \/ \E i \in DOMAIN ops, attributes \in AttributeSets : loadEntity_checkResponse(i, attributes)

SpecRefresh == InitOverlap /\ [][NextRefresh]_vars

\* C33: a refreshEntity for an id present in the entity store starts a
\* loadEntity that calls the transport, on cached and on non-cached endpoints,
\* and once its response is registered the stream the store indexed for the id
\* before the call has the refreshed entity as its latest value; a
\* refreshEntity for an id not in the store starts no operation.
C33_RefreshReachesHeldStream ==
    \A c \in DOMAIN log :
        IF log[c].held # 0
        THEN /\ log[c].started \in DOMAIN ops
             /\ ops[log[c].started].calls >= 1
             /\ ops[log[c].started].st = "succeeded"
                => \E k \in DOMAIN entitySubjects[log[c].held].hist :
                      entitySubjects[log[c].held].hist[k] = ops[log[c].started].reg
        ELSE log[c].started = 0

\* ---------------------------------------------------- set during a save
\* this step processes the response to the save a of an entity
C34_SaveCompleted(a) ==
    /\ ops[a].kind = "saveEntity" /\ ops[a].st = "pending" /\ ops'[a].st = "succeeded"

\* keys of the saved entity holding a defined value that no save of the entity
\* was issued with: the value was set after the latest payload was built
C34_NeverSent(a) ==
    {key \in Keys :
        /\ entities[ops[a].ent].attributes[key] # Undefined
        /\ \A b \in DOMAIN ops :
              (ops[b].kind = "saveEntity" /\ ops[b].ent = ops[a].ent)
              => ops[b].data[key] # entities[ops[a].ent].attributes[key]}

\* C34: when a save of an entity completes, every field whose current value
\* was set locally while the save was in flight, and was part of no payload
\* handed to the transport, is still reported by getDiff().
C34_LateSetStaysInDiff ==
    [][\A a \in DOMAIN ops : C34_SaveCompleted(a) =>
          \A key \in C34_NeverSent(a) : key \in getDiff(entities'[ops[a].ent])]_vars

\* ------------------------------------------------------------- pushed deletes
MaxPushCalls == 3

\* the take(1) subscriptions of unregisterEntityTypeAndId still waiting for a
\* first value of entity stream s
PendingDeletes(s) == {c \in DOMAIN log : log[c].op = "delete" /\ log[c].pending /\ log[c].subject = s}

PushCalled(op, type, id, subject, pending, threw) ==
    Append(log, [op |-> op, type |-> type, id |-> id, subject |-> subject,
                 pending |-> pending, threw |-> threw])

\* unregisterEntityTypeAndId(type, id): subscribes, with take(1), to the stream
\* getEntityObservable(id) hands back; a stream that replays a value runs
\* unregisterEntity at once, one without a value keeps the subscription
unregisterEntityTypeAndId(type, id) ==
    /\ Len(log) < MaxPushCalls
    /\ IF type \notin DOMAIN entitiesLiveStore
       THEN /\ log' = PushCalled("delete", type, id, 0, FALSE, TRUE)
            /\ UNCHANGED <<entities, entitySubjects, collectionSubjects,
                           entitiesLiveStore, collectionsLiveStore>>
       ELSE LET r == EntityStore_getEntityObservable(World, type, id, FALSE)
                subject == r.w.entitySubjects[r.ret]
                replays == subject.hist # <<>> /\ ~subject.err
            IN /\ SetWorld(IF replays
                           THEN DataConnector_unregisterEntity(r.w, Last(subject.hist))
                           ELSE r.w)
               /\ log' = PushCalled("delete", type, id, r.ret,
                                    ~replays /\ ~subject.err, FALSE)
    /\ UNCHANGED CStoreFrame

\* registerEntityByData on a connector with waiting subscriptions: the push on
\* the entity stream runs them
Push_registerEntityByData(type, id, attributes) ==
    /\ Len(log) < MaxPushCalls
    /\ LET w0 == EnsureCollectionStore(EnsureEntityStore(World, type), type)
           ref == Len(w0.entities) + 1
           w1 == [w0 EXCEPT !.entities =
                      Append(@, DataEntity_new(type, [id |-> id, attributes |-> attributes], id))]
           w2 == DataConnector_getEntitySubject(w1, type, id, FALSE).w
           w3 == CollectionStore_registerEntityInCollections(w2, type, ref, TRUE)
           r == EntityStore_registerEntity(w3, type, ref, id)
           waiting == PendingDeletes(r.ret)
       IN /\ SetWorld(IF waiting # {} THEN DataConnector_unregisterEntity(r.w, ref) ELSE r.w)
          /\ log' = Append([c \in DOMAIN log |->
                               IF c \in waiting THEN [log[c] EXCEPT !.pending = FALSE]
                               ELSE log[c]],
                           [op |-> "push", type |-> type, id |-> id, subject |-> r.ret,
                            pending |-> FALSE, threw |-> FALSE])
    /\ UNCHANGED CStoreFrame

\* a connector without stores, or one that has loaded two collections
InitPushDelete == InitPaginated \/ InitOverlap

NextPushDelete ==
    \/ \E type \in Types, id \in OverlapIds : unregisterEntityTypeAndId(type, id)
    \/ \E type \in Types, data \in PushedData :
          Push_registerEntityByData(type, data.id, data.attributes)

SpecPushDelete == InitPushDelete /\ [][NextPushDelete]_vars

\* this step is a pushed delete for an id that has no entry in the entity store
C35_DeleteOfUnknownId ==
    /\ Len(log') = Len(log) + 1 /\ Last(log').op = "delete"
    /\ LET type == Last(log').type IN
       type \in DOMAIN entitiesLiveStore
       => ~EntityStore_isInStore(entitiesLiveStore[type], Last(log').id)

\* C35: a pushed delete for an id that has no entry in the entity store leaves
\* the entity store and the collections as they were, raises nothing and
\* leaves no subscription waiting to evict an entity registered later.
C35_UnknownDeleteChangesNothing ==
    [][C35_DeleteOfUnknownId =>
          /\ entitiesLiveStore' = entitiesLiveStore
          /\ collectionsLiveStore' = collectionsLiveStore
          /\ ~Last(log').pending /\ ~Last(log').threw]_vars

\* ------------------------------------------------- handlers after clear()
NextClear ==
    \/ \E type \in Types, id \in Ids : loadEntity(type, id)
    \/ \E i \in DOMAIN ops, attributes \in AttributeSets : loadEntity_checkResponse(i, attributes)
    \/ \E type \in Types, filter \in Filters : loadCollection(type, filter)
    \/ \E i \in DOMAIN ops : \E data \in CollectionResponses(ops[i].filter) :
            loadCollection_checkResponse(i, data)
    \/ \E ref \in DOMAIN entities : saveEntity(ref)
    \/ \E i \in DOMAIN ops : saveEntity_checkResponse(i)
    \/ \E ref \in DOMAIN entities : deleteEntity(ref)
    \/ \E i \in DOMAIN ops : deleteEntity_checkResponse(i)
    \/ \E i \in DOMAIN ops, code \in ErrorCodes : errorHandler(i, code)
    \/ \E i \in DOMAIN ops : retry(i)
    \/ clear

SpecClear == InitPaginated /\ [][NextClear]_vars

\* C36: no response, retry or error callback of an operation raises, whether
\* it runs before or after clear() (the reset logout() performs) has replaced
\* the stores.
C36_NoHandlerRaises ==
    \A i \in DOMAIN ops : ~ops[i].threw

\* --------------------------------------- collection members and the store
RealIds(ids) == ids \ {TempId, UndefinedId, NullId}

\* C37: every member with a real id of every stored collection of a type has
\* an entry in the entity store of that type.
C37_MembersAreInEntityStore ==
    \A type \in DOMAIN collectionsLiveStore :
        \A hash \in DOMAIN collectionsLiveStore[type].collections :
            \A id \in RealIds(MemberIds(entities, collectionsLiveStore[type].collections[hash])) :
                /\ type \in DOMAIN entitiesLiveStore
                /\ EntityStore_isInStore(entitiesLiveStore[type], id)

\* ------------------------------------- the id a stored entity is indexed by
\* ids a transport's answer may carry; 0 is falsy, the requested id is kept
CarriedIds == Ids \cup {0}

\* checkResponse of loadEntity with the record the transport delivered: the
\* entity takes the id of the record when it is truthy, and is registered
\* under the id that was requested
loadEntity_checkResponseCarrying(i, carried, attributes) ==
    /\ i \in DOMAIN ops /\ ops[i].kind = "loadEntity" /\ ops[i].st = "pending"
    /\ LET op == ops[i]
           ref == Len(entities) + 1
           data == [id |-> carried, attributes |-> attributes]
           w1 == [World EXCEPT !.entities = Append(@, DataEntity_new(op.type, data, op.id))]
           r == DataConnector_registerEntity(w1, op.type, op.id, ref)
       IN /\ SetWorld(r.w)
          /\ ops' = [ops EXCEPT ![i].st = "succeeded", ![i].reg = ref]
    /\ UNCHANGED <<Config, sets>>

NextCarriedId ==
    \/ \E type \in Types, attributes \in AttributeSets : createTemporaryEntity(type, attributes)
    \/ \E type \in Types, id \in Ids : loadEntity(type, id)
    \/ \E i \in DOMAIN ops, carried \in CarriedIds, attributes \in AttributeSets :
            loadEntity_checkResponseCarrying(i, carried, attributes)
    \/ \E ref \in DOMAIN entities : deleteEntity(ref)
    \/ \E i \in DOMAIN ops : deleteEntity_checkResponse(i)

SpecCarriedId == InitPaginated /\ [][NextCarriedId]_vars

\* C38: for every key X indexed in an entity store, the entity most recently
\* pushed on the stream indexed under X, if any, has id X.
C38_IndexedUnderOwnId ==
    \A type \in DOMAIN entitiesLiveStore :
        \A X \in DOMAIN entitiesLiveStore[type].entitiesObservables :
            LET subject == entitySubjects[entitiesLiveStore[type].entitiesObservables[X]]
            IN subject.hist # <<>> => entities[Last(subject.hist)].id = X

\* ------------------------------------------- the Nodejs (socket) transport
MaxNodejsOps == 2
MaxDisconnects == 2

\* emitted: socket messages sent for the operation; answered: answers the
\* socket delivered for it; timers: setTimeout callbacks of its retries that
\* have not run yet
NodejsOp(kind, type) == NewOp(kind, type) @@ [emitted |-> 0, answered |-> 0, timers |-> 0]

NodejsFrame == <<configuration, maxRetry, retryTimeout, sets, storeCalls, collection,
                 localStorage, pushListeners, log, http>>

\* sendError(0, '', errorHandler): the connector's error callback of operation
\* i runs with code 0, whatever the state of the operation
Nodejs_sendError(s, i) ==
    LET op == [s.ops[i] EXCEPT !.code = 0, !.fails = @ + 1]
    IN IF MayRetry(op.type, op.count)
       THEN [s EXCEPT !.ops[i] = [op EXCEPT !.count = @ + 1, !.timers = @ + 1]]
       ELSE LET f == OnFailed(s.w, op)
            IN [s EXCEPT !.w = f.w,
                         !.ops[i] = [op EXCEPT !.st = "failed", !.threw = f.threw]]

RECURSIVE Nodejs_sendErrors(_, _)
Nodejs_sendErrors(s, handlers) ==
    IF handlers = <<>> THEN s
    ELSE Nodejs_sendErrors(Nodejs_sendError(s, Head(handlers)), Tail(handlers))

\* dispatchErrors: every callback of errorsStore runs and is deleted, every
\* callback of collectionsErrorStore runs and is kept
Nodejs_dispatchErrors(s) ==
    [Nodejs_sendErrors(Nodejs_sendErrors(s, s.n.errorsStore), s.n.collectionsErrorStore)
        EXCEPT !.n.errorsStore = <<>>]

\* Nodejs.loadCollection for operation i
Nodejs_loadCollectionCall(s, i) ==
    IF ~s.n.connected
    THEN Nodejs_sendError(s, i)
    ELSE [s EXCEPT !.ops[i].emitted = @ + 1,
                   !.n.collectionsErrorStore = Append(@, i)]

\* Nodejs.createEntity for operation i: the callback is stored before the
\* connection is tested
Nodejs_createEntityCall(s, i) ==
    LET s1 == [s EXCEPT !.n.errorsStore = Append(@, i)]
    IN IF ~s.n.connected
       THEN Nodejs_sendError(s1, i)
       ELSE [s1 EXCEPT !.ops[i].emitted = @ + 1]

SetNodejs(s) ==
    /\ SetWorld(s.w)
    /\ ops' = s.ops
    /\ nodejs' = s.n

\* connector.loadCollection on an endpoint served by the socket
Nodejs_loadCollection(type, filter) ==
    /\ Len(ops) < MaxNodejsOps
    /\ ~useCache(type)
    /\ LET r == DataConnector_getCollectionObservable(World, type, filter, FALSE)
           op == [NodejsOp("loadCollection", type) EXCEPT
                     !.filter = filter, !.subj = r.ret, !.calls = 1]
       IN SetNodejs(Nodejs_loadCollectionCall(
              [w |-> r.w, ops |-> Append(ops, op), n |-> nodejs], Len(ops) + 1))
    /\ UNCHANGED <<NodejsFrame, listenerSubjects>>

\* the retrieve_<type> event answers a request of operation i: the transport's
\* subject emits and the connector registers the collection
Nodejs_retrieve(i, data) ==
    /\ i \in DOMAIN ops /\ ops[i].kind = "loadCollection"
    /\ nodejs.connected /\ ops[i].answered < ops[i].emitted
    /\ LET op == ops[i]
           c == DataCollection_new(entities, op.type, data, <<>>)
           w1 == [World EXCEPT !.entities = c.entities]
       IN SetWorld(DataConnector_registerCollection(w1, op.type, op.filter, c.refs, FALSE))
    /\ ops' = [ops EXCEPT ![i].answered = @ + 1,
                          ![i].st = IF @ = "failed" THEN @ ELSE "succeeded"]
    /\ UNCHANGED <<NodejsFrame, listenerSubjects, nodejs>>

\* connector.createEntity on an endpoint served by the socket
Nodejs_createEntity(type, attributes) ==
    /\ Len(ops) < MaxNodejsOps
    /\ LET w1 == [World EXCEPT !.entitySubjects = Append(@, NewReplaySubject)]
           op == [NodejsOp("createEntity", type) EXCEPT
                     !.subj = Len(entitySubjects) + 1, !.data = attributes, !.calls = 1]
       IN SetNodejs(Nodejs_createEntityCall(
              [w |-> w1, ops |-> Append(ops, op), n |-> nodejs], Len(ops) + 1))
    /\ UNCHANGED <<NodejsFrame, listenerSubjects>>

\* the socket's message handler, command "put": the service reports the entity
\* it created for a message of operation i, under the id it chose
Nodejs_put(i, id) ==
    /\ i \in DOMAIN ops /\ ops[i].kind = "createEntity"
    /\ nodejs.connected /\ ops[i].answered < ops[i].emitted
    /\ LET type == ops[i].type
           w0 == EnsureCollectionStore(EnsureEntityStore(World, type), type)
           ref == Len(w0.entities) + 1
           w1 == [w0 EXCEPT !.entities =
                      Append(@, DataEntity_new(type, [id |-> id, attributes |-> ops[i].data], id))]
           w2 == DataConnector_getEntitySubject(w1, type, id, FALSE).w
           w3 == CollectionStore_registerEntityInCollections(w2, type, ref, TRUE)
           w4 == EntityStore_registerEntity(w3, type, ref, id).w
       IN /\ SetWorld(w4)
          /\ listenerSubjects' =
                IF type \in DOMAIN pushListeners
                THEN [listenerSubjects EXCEPT ![pushListeners[type]] = SubjectNext(@, ref)]
                ELSE listenerSubjects
    /\ ops' = [ops EXCEPT ![i].answered = @ + 1]
    /\ UNCHANGED <<NodejsFrame, nodejs>>

\* the setTimeout callback of a retry: the transport is called again
Nodejs_retry(i) ==
    /\ i \in DOMAIN ops /\ ops[i].timers > 0
    /\ LET s == [w |-> World, n |-> nodejs,
                 ops |-> [ops EXCEPT ![i].timers = @ - 1, ![i].calls = @ + 1]]
       IN SetNodejs(IF ops[i].kind = "loadCollection"
                    THEN Nodejs_loadCollectionCall(s, i)
                    ELSE Nodejs_createEntityCall(s, i))
    /\ UNCHANGED <<NodejsFrame, listenerSubjects>>

\* socket event 'disconnect'
Nodejs_disconnect ==
    /\ nodejs.connected /\ nodejs.disconnects < MaxDisconnects
    /\ SetNodejs(Nodejs_dispatchErrors(
           [w |-> World, ops |-> ops,
            n |-> [nodejs EXCEPT !.connected = FALSE, !.disconnects = @ + 1]]))
    /\ UNCHANGED <<NodejsFrame, listenerSubjects>>

\* socket event 'connect'
Nodejs_connect ==
    /\ ~nodejs.connected
    /\ nodejs' = [nodejs EXCEPT !.connected = TRUE]
    /\ UNCHANGED <<NodejsFrame, listenerSubjects, ops, entities, entitySubjects,
                   collectionSubjects, entitiesLiveStore, collectionsLiveStore>>

\* what the service answers and what the application creates
NodejsResponses == {<<Record(1, "open")>>}
NodejsAttributes == {[key \in Keys |-> "open"]}

NextNodejs ==
    \/ \E type \in Types, filter \in Filters : Nodejs_loadCollection(type, filter)
    \/ \E i \in DOMAIN ops, data \in NodejsResponses : Nodejs_retrieve(i, data)
    \/ \E type \in Types, attributes \in NodejsAttributes : Nodejs_createEntity(type, attributes)
    \/ \E i \in DOMAIN ops, id \in Ids : Nodejs_put(i, id)
    \/ \E i \in DOMAIN ops : Nodejs_retry(i)
    \/ Nodejs_disconnect
    \/ Nodejs_connect

SpecNodejs == InitPaginated /\ [][NextNodejs]_vars

\* every message the operation sent was answered and no retry is scheduled
Nodejs_completed(op) ==
    /\ op.emitted > 0 /\ op.answered = op.emitted
    /\ op.timers = 0 /\ op.st # "failed"

\* C39: a disconnect runs the error callback of an operation at most once, and
\* leaves every completed operation as it was: no retry scheduled, no retry
\* budget consumed, its stream not errored.
C39_DisconnectSparesCompleted ==
    [][(nodejs.connected /\ ~nodejs'.connected) =>
          \A i \in DOMAIN ops :
              /\ ops'[i].fails <= ops[i].fails + 1
              /\ Nodejs_completed(ops[i]) => ops'[i] = ops[i]]_vars

\* ------------------------------------- CollectionStore: the three key sets
CStore_registerEntityInCollections(id, attributes, refreshCollection) ==
    /\ Len(log) < MaxCollectionStoreCalls
    /\ LET ref == Len(entities) + 1
           w1 == [World EXCEPT !.entities =
                      Append(@, DataEntity_new(StoreType, [id |-> id, attributes |-> attributes], id))]
       IN SetWorld(CollectionStore_registerEntityInCollections(w1, StoreType, ref,
                                                               refreshCollection))
    /\ CStoreCalled("registerEntityInCollections", <<>>, Len(entities) + 1)
    /\ UNCHANGED CStoreFrame

CStore_deleteEntityFromCollection(ref) ==
    /\ Len(log) < MaxCollectionStoreCalls
    /\ ref \in DOMAIN entities
    /\ SetWorld(CollectionStore_deleteEntityFromCollection(World, StoreType, ref))
    /\ CStoreCalled("deleteEntityFromCollection", <<>>, ref)
    /\ UNCHANGED CStoreFrame

CStore_clearEntities(filter) ==
    /\ Len(log) < MaxCollectionStoreCalls
    /\ SetWorld(CollectionStore_clearEntities(World, StoreType, filter))
    /\ CStoreCalled("clearEntities", filter, 0)
    /\ UNCHANGED CStoreFrame

NextStoreKeys ==
    \/ \E data \in StoreCollections, filter \in Filters : CStore_registerCollection(data, filter)
    \/ \E filter \in Filters, cache \in BOOLEAN : CStore_getCollectionSubject(filter, cache)
    \/ \E id \in Ids, attributes \in AttributeSets, refreshCollection \in BOOLEAN :
            CStore_registerEntityInCollections(id, attributes, refreshCollection)
    \/ \E filter \in Filters : CStore_refreshCollections(filter)
    \/ \E ref \in DOMAIN entities : CStore_deleteEntityFromCollection(ref)
    \/ \E filter \in Filters : CStore_clearEntities(filter)
    \/ \E filter \in Filters : CStore_unregister(filter)

SpecStoreKeys == InitCollectionStore /\ [][NextStoreKeys]_vars

\* C40: in every store the stored collections and the stored filters have the
\* same keys, and every such key has a stream.
C40_KeySetsAgree ==
    \A type \in DOMAIN collectionsLiveStore :
        LET store == collectionsLiveStore[type]
        IN /\ DOMAIN store.collections = DOMAIN store.filters
           /\ DOMAIN store.collections \subseteq DOMAIN store.collectionObservables

\* a filter was unregistered while another collection stays stored, and a
\* stream without a collection is indexed
C40_Witness ==
    /\ \E k \in DOMAIN log : log[k].op = "unregister"
                             /\ \E j \in 1..(k - 1) : /\ log[j].op = "registerCollection"
                                                      /\ log[j].filter = log[k].filter
    /\ \E k \in DOMAIN log : log[k].op = "getCollectionSubject"
    /\ DOMAIN collectionsLiveStore[StoreType].collectionObservables
           # DOMAIN collectionsLiveStore[StoreType].collections

====
